---- MODULE Spec2Model ----
(***************************************************************************)
(* Model of the VLAN-aware learning switch of src/VSwitch/vswitch.c.       *)
(*                                                                         *)
(* State: the per-port configuration built by main() from the port specs   *)
(* (gifc), the global MAC learning table (lookupTable) and, as history,    *)
(* the last inbound frame message (rx), the outbound messages written      *)
(* while it was handled (tx) and the learning table before it (prev).      *)
(* Frames are byte sequences; byte offset k of the C code is element k+1.  *)
(*                                                                         *)
(* argv holds the port specs of the command line, and status tells        *)
(* whether the process is running, has returned from main() with 0 or 1    *)
(* ("exit0", "exit1"), or was ended by abort() ("aborted").                *)
(*                                                                         *)
(* stdin and stdout are the inbound and the outbound message stream of     *)
(* loop().  SpecLoop and SpecBytes keep them; the other specifications     *)
(* look at one message at a time and leave both streams empty.  SpecBytes  *)
(* models loop() byte by byte: input is the whole inbound byte stream,     *)
(* nread the number of its bytes that read() has returned, buf the content *)
(* buf[0..off-1] of the buffer, have_mac the flag of loop(), and           *)
(* dispatched the handler calls made so far.                               *)
(*                                                                         *)
(* SpecWrite models write_all() byte by byte: fd holds the bytes that       *)
(* write() has delivered to the descriptor while the current inbound       *)
(* message is handled, cbuf the message that write_all() is writing (empty *)
(* when no call is active), wr_off its variable off, ret the last value    *)
(* that write() returned, and wr_k the number of forward_to() calls of the *)
(* current inbound message that have returned.  In the other               *)
(* specifications write_all() is one step and these variables stay as      *)
(* they start.                                                             *)
(*                                                                         *)
(* inserted is history as well: the MAC addresses that the learning table  *)
(* holds, in the order in which they were inserted, oldest first.          *)
(***************************************************************************)
EXTENDS Integers, Sequences, FiniteSets, TLC

VARIABLES argv, gifc, lookupTable, status, rx, tx, prev, oob, stdin, stdout,
          input, nread, buf, have_mac, dispatched, fd, cbuf, wr_off, ret,
          wr_k, inserted

vars == <<argv, gifc, lookupTable, status, rx, tx, prev, oob, stdin, stdout,
          input, nread, buf, have_mac, dispatched, fd, cbuf, wr_off, ret,
          wr_k, inserted>>

\* The state of the byte-level loop(), which only SpecBytes changes.
loopvars == <<input, nread, buf, have_mac, dispatched>>

\* The state of write_all(), which only SpecWrite changes.
writevars == <<fd, cbuf, wr_off, ret, wr_k>>

(***************************************************************************)
(* Program constants                                                       *)
(***************************************************************************)
MAX_VLANS == 4092
NO_VLAN == -1
DEFAULT_VLAN == 0
ETH_802_1Q_TAG == 33024
NBR_ENTRIES == 8
IF_NO_INIT == 65535
ETH_HEADER_SIZE == 14
GLAB_HEADER_SIZE == 4

(***************************************************************************)
(* Bounds of the model                                                     *)
(***************************************************************************)
NumPorts == 2

(***************************************************************************)
(* Byte-level helpers                                                      *)
(***************************************************************************)
Byte(f, off) == f[off + 1]

Bytes(f, from, to) == [k \in 1..(to - from + 1) |-> f[from + k]]

U16(f, off) == Byte(f, off) * 256 + Byte(f, off + 1)

htons(x) == <<(x \div 256) % 256, x % 256>>

ZeroMac == <<0, 0, 0, 0, 0, 0>>
MacA == <<0, 17, 34, 170, 187, 204>>
MacB == <<0, 170, 136, 102, 68, 34>>
MacBcast == <<255, 255, 255, 255, 255, 255>>

IsUnicast(mac) == mac[1] % 2 = 0

(***************************************************************************)
(* Port configuration: main(), parse_vlan_args(), parse_tagged() and       *)
(* parse_untagged().  A command-line argument is the sequence of its       *)
(* characters: the character at offset k of the C string is element k + 1, *)
(* and position 0 stands for the NULL result of strchr().  tagged_vlans is *)
(* the prefix of the C array up to and including the NO_VLAN terminator,   *)
(* so tagged_vlans[1] is the C tagged_vlans[0].                            *)
(*                                                                         *)
(* sscanf("%u") is modelled as the C library of the build performs it: the *)
(* digits are accumulated in an unsigned long of 64 bits that saturates at *)
(* 2^64 - 1, a leading '-' negates the result, and the low 32 bits are     *)
(* stored into the unsigned int.  Numbers of more than 16 bits are kept as *)
(* 16-bit limbs, least significant limb first.                             *)
(***************************************************************************)
Digits == <<"0", "1", "2", "3", "4", "5", "6", "7", "8", "9">>

IsDigit(c) == \E d \in DOMAIN Digits : Digits[d] = c

DigitVal(c) == (CHOOSE d \in DOMAIN Digits : Digits[d] = c) - 1

\* Position of the first c in s at or after position from; 0 if there is none.
strchr(s, from, c) ==
  IF \E i \in from..Len(s) : s[i] = c
    THEN CHOOSE i \in from..Len(s) :
           s[i] = c /\ \A j \in from..(i - 1) : s[j] # c
    ELSE 0

strndup(s, start, n) == SubSeq(s, start, start + n - 1)

\* Variant of strtok that returns the tokens from the last to the first.
RECURSIVE strtok_from_the_end(_, _)
strtok_from_the_end(spec, delim) ==
  IF spec = <<>> THEN <<>>
  ELSE IF Head(spec) = delim THEN strtok_from_the_end(Tail(spec), delim)
  ELSE LET stop == strchr(spec, 1, delim)
           n == IF stop = 0 THEN Len(spec) ELSE stop - 1
       IN  strtok_from_the_end(SubSeq(spec, n + 1, Len(spec)), delim)
             \o <<SubSeq(spec, 1, n)>>

\* The tokens that successive strtok() calls return: the maximal runs of
\* characters other than delim.
RECURSIVE strtok(_, _)
strtok(spec, delim) ==
  IF spec = <<>> THEN <<>>
  ELSE IF Head(spec) = delim THEN strtok(Tail(spec), delim)
  ELSE LET stop == strchr(spec, 1, delim)
           n == IF stop = 0 THEN Len(spec) ELSE stop - 1
       IN  <<SubSeq(spec, 1, n)>> \o strtok(SubSeq(spec, n + 1, Len(spec)), delim)

ULONG_MAX == <<65535, 65535, 65535, 65535>>

\* v * 10 + d in 64 bits; overflow tells that the product left the 64 bits.
MulTenAdd(v, d) ==
  LET a1 == v[1] * 10 + d
      a2 == v[2] * 10 + (a1 \div 65536)
      a3 == v[3] * 10 + (a2 \div 65536)
      a4 == v[4] * 10 + (a3 \div 65536)
  IN  [val |-> <<a1 % 65536, a2 % 65536, a3 % 65536, a4 % 65536>>,
       overflow |-> a4 \div 65536 > 0]

\* 2^64 - v, the unsigned negation.
Negate(v) ==
  LET a1 == (65535 - v[1]) + 1
      a2 == (65535 - v[2]) + (a1 \div 65536)
      a3 == (65535 - v[3]) + (a2 \div 65536)
      a4 == (65535 - v[4]) + (a3 \div 65536)
  IN  <<a1 % 65536, a2 % 65536, a3 % 65536, a4 % 65536>>

\* The leading run of decimal digits of s.
RECURSIVE DigitRun(_)
DigitRun(s) ==
  IF s # <<>> /\ IsDigit(Head(s)) THEN <<Head(s)>> \o DigitRun(Tail(s)) ELSE <<>>

RECURSIVE strtoul(_, _, _)
strtoul(digits, v, overflow) ==
  IF digits = <<>> THEN [val |-> v, overflow |-> overflow]
  ELSE LET next == MulTenAdd(v, DigitVal(Head(digits)))
       IN  strtoul(Tail(digits), next.val, overflow \/ next.overflow)

RECURSIVE SkipSpace(_)
SkipSpace(s) == IF s # <<>> /\ Head(s) = " " THEN SkipSpace(Tail(s)) ELSE s

\* sscanf(s, "%u", &tag): converted tells whether the call returned 1, and
\* the stored tag is hi * 2^16 + lo.
sscanf(s) ==
  LET t == SkipSpace(s)
      signed == t # <<>> /\ Head(t) \in {"+", "-"}
      digits == DigitRun(IF signed THEN Tail(t) ELSE t)
      n == strtoul(digits, <<0, 0, 0, 0>>, FALSE)
      v == IF n.overflow THEN ULONG_MAX
           ELSE IF signed /\ Head(t) = "-" THEN Negate(n.val)
           ELSE n.val
  IN  [converted |-> digits # <<>>, lo |-> v[1], hi |-> v[2]]

\* tag > MAX_VLANS for the unsigned int tag that sscanf stored.
TooLarge(tag) == tag.hi > 0 \/ tag.lo > MAX_VLANS

RECURSIVE parse_tagged_tokens(_, _)
parse_tagged_tokens(toks, vlans) ==
  IF toks = <<>> THEN [rc |-> 0, tagged_vlans |-> vlans \o <<NO_VLAN>>]
  ELSE IF Len(vlans) = MAX_VLANS THEN [rc |-> 1, tagged_vlans |-> <<NO_VLAN>>]
  ELSE LET tag == sscanf(Head(toks))
       IN  IF ~tag.converted \/ TooLarge(tag)
             THEN [rc |-> 1, tagged_vlans |-> <<NO_VLAN>>]
             ELSE parse_tagged_tokens(Tail(toks), Append(vlans, tag.lo))

\* start and end are positions in arg; the result is the return code and
\* the fields of the port that the function wrote.
parse_tagged(arg, start, end) ==
  IF arg[start] # ":"
    THEN [rc |-> 1, untagged_vlan |-> NO_VLAN, tagged_vlans |-> <<NO_VLAN>>]
    ELSE LET spec == strndup(arg, start + 1, end - (start + 1))
             r == parse_tagged_tokens(strtok(spec, ","), <<>>)
         IN  [rc |-> r.rc, untagged_vlan |-> NO_VLAN,
              tagged_vlans |-> r.tagged_vlans]

parse_untagged(arg, start, end) ==
  IF arg[start] # ":"
    THEN [rc |-> 1, untagged_vlan |-> NO_VLAN, tagged_vlans |-> <<NO_VLAN>>]
    ELSE LET spec == strndup(arg, start + 1, end - (start + 1))
             tag == sscanf(spec)
         IN  IF ~tag.converted \/ TooLarge(tag)
               THEN [rc |-> 1, untagged_vlan |-> NO_VLAN,
                     tagged_vlans |-> <<NO_VLAN>>]
               ELSE [rc |-> 0, untagged_vlan |-> tag.lo,
                     tagged_vlans |-> <<NO_VLAN>>]

parse_vlan_args(arg, off) ==
  LET openbracket == strchr(arg, 1, "[")
      closebracket == strchr(arg, openbracket + 1, "]")
  IN  IF openbracket = 0
        THEN [rc |-> 0, untagged_vlan |-> DEFAULT_VLAN,
              tagged_vlans |-> <<NO_VLAN>>]
      ELSE IF closebracket = 0
        THEN [rc |-> 1, untagged_vlan |-> NO_VLAN, tagged_vlans |-> <<NO_VLAN>>]
      ELSE IF arg[openbracket + 1] = "T"
        THEN parse_tagged(arg, openbracket + 2, closebracket)
      ELSE IF arg[openbracket + 1] = "U"
        THEN parse_untagged(arg, openbracket + 2, closebracket)
      ELSE [rc |-> 1, untagged_vlan |-> NO_VLAN, tagged_vlans |-> <<NO_VLAN>>]

\* The return code of main() before loop() and the ifc array it built; a
\* return of 1 ends the process, and with it the array.
main(args) ==
  LET parsed == [i \in DOMAIN args |-> parse_vlan_args(args[i], i)]
  IN  IF \E i \in DOMAIN args : parsed[i].rc # 0
        THEN [rc |-> 1, ifc |-> <<>>]
        ELSE [rc |-> 0,
              ifc |-> [i \in DOMAIN args |->
                         [mac |-> ZeroMac,
                          ifc_num |-> i,
                          untagged_vlan |-> parsed[i].untagged_vlan,
                          tagged_vlans |-> parsed[i].tagged_vlans]]]

num_ifc == Len(gifc)

\* The decimal text of a natural number.
RECURSIVE Dec(_)
Dec(n) ==
  IF n < 10 THEN <<Digits[n + 1]>>
  ELSE Dec(n \div 10) \o <<Digits[(n % 10) + 1]>>

\* The text of a VIDLIST: the VIDs in decimal, separated by commas.
RECURSIVE VidListText(_)
VidListText(l) ==
  IF l = <<>> THEN <<>>
  ELSE IF Len(l) = 1 THEN Dec(l[1])
  ELSE Dec(Head(l)) \o <<",">> \o VidListText(Tail(l))

IfcName == <<"e", "t", "h">>

UntaggedSpec(v) == IfcName \o <<"[", "U", ":">> \o Dec(v) \o <<"]">>

TaggedSpec(l) == IfcName \o <<"[", "T", ":">> \o VidListText(l) \o <<"]">>

\* VLAN 1 is the VID that parse_untagged_frame writes into an inserted tag.
Vlans == {1, 2}

\* VIDLIST of the port-spec grammar: one or more VIDs, here without repeats.
VidLists ==
  {l \in UNION {[1..n -> Vlans] : n \in 1..Cardinality(Vlans)} :
     \A i \in DOMAIN l : \A j \in DOMAIN l : l[i] = l[j] => i = j}

PortSpecs ==
  {UntaggedSpec(v) : v \in Vlans} \cup {TaggedSpec(l) : l \in VidLists}

(***************************************************************************)
(* Learning table                                                          *)
(***************************************************************************)
ZeroTable ==
  [table |-> [i \in 0..(NBR_ENTRIES - 1) |-> [mac |-> ZeroMac, ifc_num |-> 0]],
   nbr_position |-> 0,
   current_position |-> 0]

lookup_table_init ==
  [table |-> [i \in 0..(NBR_ENTRIES - 1) |->
                [mac |-> ZeroMac, ifc_num |-> IF_NO_INIT]],
   nbr_position |-> NBR_ENTRIES,
   current_position |-> 0]

\* Variant of search_lookup_table without the test for IF_NO_INIT: a slot
\* that nothing has written matches the all-zero address.
search_lookup_table_any_slot(lt, targetMac) ==
  LET hits == {i \in 0..(lt.nbr_position - 1) : lt.table[i].mac = targetMac}
  IN IF hits = {} THEN -1
     ELSE CHOOSE i \in hits : \A j \in hits : i <= j

\* Position of the first slot below nbr_position that holds targetMac and
\* has been written, or -1.
search_lookup_table(lt, targetMac) ==
  LET hits == {i \in 0..(lt.nbr_position - 1) :
                 /\ lt.table[i].mac = targetMac
                 /\ lt.table[i].ifc_num # IF_NO_INIT}
  IN IF hits = {} THEN -1
     ELSE CHOOSE i \in hits : \A j \in hits : i <= j

\* Variant of save_to_table that stores a station seen on another port in
\* the slot at the cursor instead of updating its slot.
save_to_table_move_by_insert(lt, new_if) ==
  LET table_pos == search_lookup_table(lt, new_if.mac) IN
  IF table_pos # -1 /\ lt.table[table_pos].ifc_num = new_if.ifc_num
    THEN lt
    ELSE [lt EXCEPT
            !.table[lt.current_position] =
               [mac |-> new_if.mac, ifc_num |-> new_if.ifc_num],
            !.current_position = (lt.current_position + 1) % lt.nbr_position]

\* Variant of save_to_table that stores every source at the cursor without
\* searching the table for it.
save_to_table_no_search(lt, new_if) ==
  [lt EXCEPT
     !.table[lt.current_position] =
        [mac |-> new_if.mac, ifc_num |-> new_if.ifc_num],
     !.current_position = (lt.current_position + 1) % lt.nbr_position]

\* Variant of save_to_table that advances the cursor without the modulo.
save_to_table_no_wrap(lt, new_if) ==
  LET table_pos == search_lookup_table(lt, new_if.mac) IN
  IF table_pos # -1
    THEN IF lt.table[table_pos].ifc_num = new_if.ifc_num
           THEN lt
           ELSE [lt EXCEPT !.table[table_pos].ifc_num = new_if.ifc_num]
    ELSE [lt EXCEPT
            !.table[lt.current_position] =
               [mac |-> new_if.mac, ifc_num |-> new_if.ifc_num],
            !.current_position = lt.current_position + 1]

\* Variant of save_to_table that advances the cursor before it stores a
\* new station.
save_to_table_advance_first(lt, new_if) ==
  LET table_pos == search_lookup_table(lt, new_if.mac) IN
  IF table_pos # -1
    THEN IF lt.table[table_pos].ifc_num = new_if.ifc_num
           THEN lt
           ELSE [lt EXCEPT !.table[table_pos].ifc_num = new_if.ifc_num]
    ELSE [lt EXCEPT
            !.table[(lt.current_position + 1) % lt.nbr_position] =
               [mac |-> new_if.mac, ifc_num |-> new_if.ifc_num],
            !.current_position = (lt.current_position + 1) % lt.nbr_position]

\* Variant of save_to_table whose cursor stays on the last slot instead of
\* wrapping around.
save_to_table_evict_newest(lt, new_if) ==
  LET table_pos == search_lookup_table(lt, new_if.mac) IN
  IF table_pos # -1
    THEN IF lt.table[table_pos].ifc_num = new_if.ifc_num
           THEN lt
           ELSE [lt EXCEPT !.table[table_pos].ifc_num = new_if.ifc_num]
    ELSE [lt EXCEPT
            !.table[lt.current_position] =
               [mac |-> new_if.mac, ifc_num |-> new_if.ifc_num],
            !.current_position =
               IF lt.current_position + 1 = lt.nbr_position
                 THEN lt.current_position
                 ELSE lt.current_position + 1]

save_to_table(lt, new_if) ==
  LET table_pos == search_lookup_table(lt, new_if.mac) IN
  IF table_pos # -1
    THEN IF lt.table[table_pos].ifc_num = new_if.ifc_num
           THEN lt
           ELSE [lt EXCEPT !.table[table_pos].ifc_num = new_if.ifc_num]
    ELSE [lt EXCEPT
            !.table[lt.current_position] =
               [mac |-> new_if.mac, ifc_num |-> new_if.ifc_num],
            !.current_position = (lt.current_position + 1) % lt.nbr_position]

(***************************************************************************)
(* Emission: one outbound message of glab framing.                         *)
(***************************************************************************)
forward_to(dst_ifc_num, frame, frame_size) ==
  [size |-> (frame_size + GLAB_HEADER_SIZE) % 65536,
   type |-> dst_ifc_num,
   frame |-> Bytes(frame, 0, frame_size - 1)]

(***************************************************************************)
(* Out-of-bounds accesses of the tag transformations are undefined         *)
(* behaviour: the bytes that lie outside the declared buffer either keep   *)
(* what the loop stored there ("intact") or come back changed ("garbled"). *)
(***************************************************************************)
UBOutcomes == {"intact", "garbled"}

GarbledByte(b) == 255 - b

\* untagged_frame[frame_size - 4] as filled by the loops of
\* parse_tagged_frame; only its first frame_size - 4 bytes are sent: bytes
\* 0..11 from the header copy, byte i >= 12 from byte_frame[i + 4], which
\* lies inside the ingress frame for every byte that is sent.
StripTag(frame, frame_size) ==
  [k \in 1..(frame_size - 4) |-> IF k <= 12 THEN frame[k] ELSE frame[k + 4]]

\* The loops of parse_tagged_frame write untagged_frame[12..frame_size-1]
\* into a buffer of frame_size - 4 bytes and read byte_frame[16..frame_size+3].
StripTagOOB(frame_size) == frame_size > 12

\* tagged_frame[frame_size - 12] as filled by the loops of
\* parse_untagged_frame; frame_size + 4 bytes of it are sent.
InsertTag(frame, frame_size, ub) ==
  LET tag == htons(ETH_802_1Q_TAG) \o htons(1)
      written(k) == IF k <= 12 THEN frame[k]
                    ELSE IF k <= 16 THEN tag[k - 12]
                    ELSE frame[k - 4]
  IN [k \in 1..(frame_size + 4) |->
        IF k > frame_size - 12 /\ ub = "garbled"
          THEN GarbledByte(written(k))
          ELSE written(k)]

InsertTagOOB(frame_size) == TRUE

(***************************************************************************)
(* Flooding                                                                *)
(***************************************************************************)
\* Variant of tagged_frame_egress without the continue after the verbatim
\* copy: a port that matches both tests gets both copies.
tagged_frame_egress_no_continue(ifc, frame, frame_size, i) ==
  IF gifc[i].ifc_num = ifc.ifc_num THEN <<>>
  ELSE (IF gifc[i].tagged_vlans[1] = ifc.tagged_vlans[1]
          THEN <<forward_to(gifc[i].ifc_num, frame, frame_size)>>
          ELSE <<>>)
       \o (IF gifc[i].untagged_vlan = ifc.tagged_vlans[1]
             THEN <<forward_to(gifc[i].ifc_num, StripTag(frame, frame_size),
                               frame_size - 4)>>
             ELSE <<>>)

\* What the loop body of parse_tagged_frame emits for gifc[i].
tagged_frame_egress(ifc, frame, frame_size, i) ==
  IF gifc[i].ifc_num = ifc.ifc_num THEN <<>>
  ELSE IF gifc[i].tagged_vlans[1] = ifc.tagged_vlans[1]
    THEN <<forward_to(gifc[i].ifc_num, frame, frame_size)>>
  ELSE IF gifc[i].untagged_vlan = ifc.tagged_vlans[1]
    THEN <<forward_to(gifc[i].ifc_num, StripTag(frame, frame_size),
                      frame_size - 4)>>
  ELSE <<>>

RECURSIVE tagged_frame_loop(_, _, _, _)
tagged_frame_loop(ifc, frame, frame_size, i) ==
  IF i > num_ifc THEN <<>>
  ELSE tagged_frame_egress(ifc, frame, frame_size, i)
         \o tagged_frame_loop(ifc, frame, frame_size, i + 1)

parse_tagged_frame(ifc, frame, frame_size) ==
  IF ifc.untagged_vlan # NO_VLAN THEN <<>>
  ELSE tagged_frame_loop(ifc, frame, frame_size, 1)

parse_tagged_frame_oob(ifc, frame_size) ==
  /\ ifc.untagged_vlan = NO_VLAN
  /\ \E i \in 1..num_ifc :
       /\ gifc[i].ifc_num # ifc.ifc_num
       /\ gifc[i].tagged_vlans[1] # ifc.tagged_vlans[1]
       /\ gifc[i].untagged_vlan = ifc.tagged_vlans[1]
       /\ StripTagOOB(frame_size)

\* What the loop body of parse_untagged_frame emits for gifc[i].
untagged_frame_egress(ifc, frame, frame_size, i, ub) ==
  IF gifc[i].ifc_num = ifc.ifc_num THEN <<>>
  ELSE IF gifc[i].untagged_vlan = ifc.untagged_vlan
    THEN <<forward_to(gifc[i].ifc_num, frame, frame_size)>>
  ELSE IF gifc[i].tagged_vlans[1] = ifc.untagged_vlan
          /\ gifc[i].ifc_num # ifc.ifc_num
    THEN <<forward_to(gifc[i].ifc_num, InsertTag(frame, frame_size, ub),
                      frame_size + 4)>>
  ELSE <<>>

RECURSIVE untagged_frame_loop(_, _, _, _, _)
untagged_frame_loop(ifc, frame, frame_size, i, ub) ==
  IF i > num_ifc THEN <<>>
  ELSE untagged_frame_egress(ifc, frame, frame_size, i, ub)
         \o untagged_frame_loop(ifc, frame, frame_size, i + 1, ub)

parse_untagged_frame(ifc, frame, frame_size, ub) ==
  untagged_frame_loop(ifc, frame, frame_size, 1, ub)

parse_untagged_frame_oob(ifc, frame_size) ==
  \E i \in 1..num_ifc :
    /\ gifc[i].ifc_num # ifc.ifc_num
    /\ gifc[i].untagged_vlan # ifc.untagged_vlan
    /\ gifc[i].tagged_vlans[1] = ifc.untagged_vlan
    /\ InsertTagOOB(frame_size)

(***************************************************************************)
(* parse_frame: result is the new learning table, the emissions and        *)
(* whether an out-of-bounds access happened.                               *)
(***************************************************************************)
\* Variant of parse_frame that learns the source before testing its
\* multicast bit.
parse_frame_learn_first(ifc, frame, frame_size, ub) ==
  LET lt0 == IF lookupTable.nbr_position = 0
               THEN lookup_table_init ELSE lookupTable
      dropped(lt) == [lt |-> lt, out |-> <<>>, oob |-> FALSE]
  IN
  IF frame_size < ETH_HEADER_SIZE THEN dropped(lt0)
  ELSE
    LET dst_addr == Bytes(frame, 0, 5)
        src_addr == Bytes(frame, 6, 11)
    IN
    LET lt1 == save_to_table(lt0, [mac |-> src_addr,
                                   ifc_num |-> ifc.ifc_num])
    IN
    IF src_addr[1] % 2 # 0 THEN dropped(lt1)
    ELSE
      LET noMacFound == IF dst_addr[1] % 2 = 0
                          THEN search_lookup_table(lt1, dst_addr)
                          ELSE -1
          ethertype == U16(frame, 12)
      IN
      IF noMacFound = -1
        THEN IF ethertype = ETH_802_1Q_TAG
               THEN [lt |-> lt1,
                     out |-> parse_tagged_frame(ifc, frame, frame_size),
                     oob |-> parse_tagged_frame_oob(ifc, frame_size)]
               ELSE IF ifc.untagged_vlan # NO_VLAN
                 THEN [lt |-> lt1,
                       out |-> parse_untagged_frame(ifc, frame, frame_size, ub),
                       oob |-> parse_untagged_frame_oob(ifc, frame_size)]
                 ELSE dropped(lt1)
        ELSE [lt |-> lt1,
              out |-> <<forward_to(lt1.table[noMacFound].ifc_num,
                                   frame, frame_size)>>,
              oob |-> FALSE]

\* Variant of parse_frame whose length check asks only for the two MAC
\* addresses before the source is learned.
parse_frame_check_macs_only(ifc, frame, frame_size, ub) ==
  LET lt0 == IF lookupTable.nbr_position = 0
               THEN lookup_table_init ELSE lookupTable
      dropped(lt) == [lt |-> lt, out |-> <<>>, oob |-> FALSE]
  IN
  IF frame_size < 12 THEN dropped(lt0)
  ELSE IF frame_size < ETH_HEADER_SIZE
    THEN IF frame[7] % 2 # 0 THEN dropped(lt0)
         ELSE dropped(save_to_table(lt0, [mac |-> Bytes(frame, 6, 11),
                                          ifc_num |-> ifc.ifc_num]))
  ELSE
    LET dst_addr == Bytes(frame, 0, 5)
        src_addr == Bytes(frame, 6, 11)
    IN
    IF src_addr[1] % 2 # 0 THEN dropped(lt0)
    ELSE
      LET lt1 == save_to_table(lt0, [mac |-> src_addr,
                                     ifc_num |-> ifc.ifc_num])
          noMacFound == IF dst_addr[1] % 2 = 0
                          THEN search_lookup_table(lt1, dst_addr)
                          ELSE -1
          ethertype == U16(frame, 12)
      IN
      IF noMacFound = -1
        THEN IF ethertype = ETH_802_1Q_TAG
               THEN [lt |-> lt1,
                     out |-> parse_tagged_frame(ifc, frame, frame_size),
                     oob |-> parse_tagged_frame_oob(ifc, frame_size)]
               ELSE IF ifc.untagged_vlan # NO_VLAN
                 THEN [lt |-> lt1,
                       out |-> parse_untagged_frame(ifc, frame, frame_size, ub),
                       oob |-> parse_untagged_frame_oob(ifc, frame_size)]
                 ELSE dropped(lt1)
        ELSE [lt |-> lt1,
              out |-> <<forward_to(lt1.table[noMacFound].ifc_num,
                                   frame, frame_size)>>,
              oob |-> FALSE]

\* Variant of parse_frame that looks the destination up in the table as it
\* was before the source was learned.
parse_frame_lookup_first(ifc, frame, frame_size, ub) ==
  LET lt0 == IF lookupTable.nbr_position = 0
               THEN lookup_table_init ELSE lookupTable
      dropped(lt) == [lt |-> lt, out |-> <<>>, oob |-> FALSE]
  IN
  IF frame_size < ETH_HEADER_SIZE THEN dropped(lt0)
  ELSE
    LET dst_addr == Bytes(frame, 0, 5)
        src_addr == Bytes(frame, 6, 11)
    IN
    IF src_addr[1] % 2 # 0 THEN dropped(lt0)
    ELSE
      LET lt1 == save_to_table(lt0, [mac |-> src_addr,
                                     ifc_num |-> ifc.ifc_num])
          noMacFound == IF dst_addr[1] % 2 = 0
                          THEN search_lookup_table(lt0, dst_addr)
                          ELSE -1
          ethertype == U16(frame, 12)
      IN
      IF noMacFound = -1
        THEN IF ethertype = ETH_802_1Q_TAG
               THEN [lt |-> lt1,
                     out |-> parse_tagged_frame(ifc, frame, frame_size),
                     oob |-> parse_tagged_frame_oob(ifc, frame_size)]
               ELSE IF ifc.untagged_vlan # NO_VLAN
                 THEN [lt |-> lt1,
                       out |-> parse_untagged_frame(ifc, frame, frame_size, ub),
                       oob |-> parse_untagged_frame_oob(ifc, frame_size)]
                 ELSE dropped(lt1)
        ELSE [lt |-> lt1,
              out |-> <<forward_to(lt1.table[noMacFound].ifc_num,
                                   frame, frame_size)>>,
              oob |-> FALSE]

\* Variant of parse_frame that learns the source only when the ingress port
\* takes the kind of frame: tagged on a tagged port, untagged on an untagged
\* port.
parse_frame_filter_first(ifc, frame, frame_size, ub) ==
  LET lt0 == IF lookupTable.nbr_position = 0
               THEN lookup_table_init ELSE lookupTable
      dropped(lt) == [lt |-> lt, out |-> <<>>, oob |-> FALSE]
  IN
  IF frame_size < ETH_HEADER_SIZE THEN dropped(lt0)
  ELSE
    LET dst_addr == Bytes(frame, 0, 5)
        src_addr == Bytes(frame, 6, 11)
    IN
    IF src_addr[1] % 2 # 0 THEN dropped(lt0)
    ELSE
      LET lt1 == IF (U16(frame, 12) = ETH_802_1Q_TAG)
                      = (ifc.untagged_vlan = NO_VLAN)
                   THEN save_to_table(lt0, [mac |-> src_addr,
                                            ifc_num |-> ifc.ifc_num])
                   ELSE lt0
          noMacFound == IF dst_addr[1] % 2 = 0
                          THEN search_lookup_table(lt1, dst_addr)
                          ELSE -1
          ethertype == U16(frame, 12)
      IN
      IF noMacFound = -1
        THEN IF ethertype = ETH_802_1Q_TAG
               THEN [lt |-> lt1,
                     out |-> parse_tagged_frame(ifc, frame, frame_size),
                     oob |-> parse_tagged_frame_oob(ifc, frame_size)]
               ELSE IF ifc.untagged_vlan # NO_VLAN
                 THEN [lt |-> lt1,
                       out |-> parse_untagged_frame(ifc, frame, frame_size, ub),
                       oob |-> parse_untagged_frame_oob(ifc, frame_size)]
                 ELSE dropped(lt1)
        ELSE [lt |-> lt1,
              out |-> <<forward_to(lt1.table[noMacFound].ifc_num,
                                   frame, frame_size)>>,
              oob |-> FALSE]

parse_frame(ifc, frame, frame_size, ub) ==
  LET lt0 == IF lookupTable.nbr_position = 0
               THEN lookup_table_init ELSE lookupTable
      dropped(lt) == [lt |-> lt, out |-> <<>>, oob |-> FALSE]
  IN
  IF frame_size < ETH_HEADER_SIZE THEN dropped(lt0)
  ELSE
    LET dst_addr == Bytes(frame, 0, 5)
        src_addr == Bytes(frame, 6, 11)
    IN
    IF src_addr[1] % 2 # 0 THEN dropped(lt0)
    ELSE
      LET lt1 == save_to_table(lt0, [mac |-> src_addr,
                                     ifc_num |-> ifc.ifc_num])
          noMacFound == IF dst_addr[1] % 2 = 0
                          THEN search_lookup_table(lt1, dst_addr)
                          ELSE -1
          ethertype == U16(frame, 12)
      IN
      IF noMacFound = -1
        THEN IF ethertype = ETH_802_1Q_TAG
               THEN [lt |-> lt1,
                     out |-> parse_tagged_frame(ifc, frame, frame_size),
                     oob |-> parse_tagged_frame_oob(ifc, frame_size)]
               ELSE IF ifc.untagged_vlan # NO_VLAN
                 THEN [lt |-> lt1,
                       out |-> parse_untagged_frame(ifc, frame, frame_size, ub),
                       oob |-> parse_untagged_frame_oob(ifc, frame_size)]
                 ELSE dropped(lt1)
        ELSE [lt |-> lt1,
              out |-> <<forward_to(lt1.table[noMacFound].ifc_num,
                                   frame, frame_size)>>,
              oob |-> FALSE]

(***************************************************************************)
(* Inbound frames of the model                                             *)
(***************************************************************************)
\* Sources: two stations and a multicast address.  Destinations: a station
\* (unknown, learned, or the sender itself) and the broadcast address.
SrcMacs == {MacA, MacB, MacBcast}

DstMacs == {MacA, MacBcast}

\* EtherType 0x0800 and 14 further bytes: an untagged frame has 28 bytes, so
\* the four tag bytes of a tag-inserted copy lie inside tagged_frame.
Payloads == {<<8, 0, 69, 0, 0, 28, 171, 205, 0, 0, 64, 17, 10, 0, 0, 1>>}

UntaggedFrame(dst, src, payload) == dst \o src \o payload

TaggedFrame(dst, src, tci, payload) ==
  dst \o src \o htons(ETH_802_1Q_TAG) \o htons(tci) \o payload

Frames ==
  {UntaggedFrame(d, s, p) : d \in DstMacs, s \in SrcMacs, p \in Payloads}
    \cup {TaggedFrame(x[1], x[2], v, p) :
            x \in DstMacs \X SrcMacs, v \in Vlans, p \in Payloads}

NoMsg == [ifc |-> 0, frame |-> <<>>]

(***************************************************************************)
(* Actions                                                                 *)
(***************************************************************************)
\* The table lt holds the address mac in a slot that has been written.
holds(lt, mac) ==
  \E i \in 0..(NBR_ENTRIES - 1) :
    /\ i < lt.nbr_position
    /\ lt.table[i].ifc_num # IF_NO_INIT
    /\ lt.table[i].mac = mac

\* The history of insertions after a frame has changed the table from
\* before to after: an address that the table did not hold is added at the
\* end, and the addresses that the table no longer holds are taken out.
insertion_order(order, before, after) ==
  LET fresh == {mac \in {after.table[i].mac : i \in 0..(NBR_ENTRIES - 1)} :
                  holds(after, mac) /\ ~holds(before, mac)}
      added == IF fresh = {} THEN order
               ELSE Append(order, CHOOSE mac \in fresh : TRUE)
      kept(mac) == holds(after, mac)
  IN SelectSeq(added, kept)

Init ==
  /\ argv \in [1..NumPorts -> PortSpecs]
  /\ gifc = main(argv).ifc
  /\ lookupTable = ZeroTable
  /\ status = "running"
  /\ rx = NoMsg
  /\ tx = <<>>
  /\ prev = ZeroTable
  /\ oob = FALSE
  /\ stdin = <<>>
  /\ stdout = <<>>
  /\ input = <<>>
  /\ nread = 0
  /\ buf = <<>>
  /\ have_mac = 0
  /\ dispatched = <<>>
  /\ fd = <<>>
  /\ cbuf = <<>>
  /\ wr_off = 0
  /\ ret = 0
  /\ wr_k = 0
  /\ inserted = <<>>

\* loop() dispatches the message at the head of its buffer to handle_frame,
\* here for a port index the switch has.  The outcome of undefined behaviour
\* is a choice only when the frame takes a path with an out-of-bounds access.
handle_frame(interface, frame) ==
  /\ status = "running"
  /\ rx = NoMsg
  /\ interface <= num_ifc
  /\ \E ub \in IF parse_frame(gifc[interface], frame, Len(frame), "intact").oob
                 THEN UBOutcomes ELSE {"intact"} :
       LET r == parse_frame(gifc[interface], frame, Len(frame), ub) IN
       /\ lookupTable' = r.lt
       /\ tx' = r.out
       /\ oob' = r.oob
       /\ inserted' = insertion_order(inserted, lookupTable, r.lt)
  /\ rx' = [ifc |-> interface, frame |-> frame]
  /\ prev' = lookupTable
  /\ UNCHANGED <<argv, gifc, status>>

\* handle_frame for a port index beyond num_ifc: abort().
handle_frame_abort(interface, frame) ==
  /\ status = "running"
  /\ rx = NoMsg
  /\ interface > num_ifc
  /\ status' = "aborted"
  /\ rx' = [ifc |-> interface, frame |-> frame]
  /\ tx' = <<>>
  /\ prev' = lookupTable
  /\ oob' = FALSE
  /\ UNCHANGED <<argv, gifc, lookupTable, inserted>>

\* The handler has returned: loop() removes the message from its buffer and
\* turns to the next one.
loop_consume ==
  /\ status = "running"
  /\ rx # NoMsg
  /\ rx' = NoMsg
  /\ tx' = <<>>
  /\ prev' = lookupTable
  /\ oob' = FALSE
  /\ UNCHANGED <<argv, gifc, lookupTable, inserted, status>>

Next ==
  \/ /\ rx = NoMsg
     /\ \E interface \in 1..num_ifc : \E frame \in Frames :
          handle_frame(interface, frame)
     /\ UNCHANGED <<stdin, stdout>>
     /\ UNCHANGED loopvars
     /\ UNCHANGED writevars
  \/ /\ rx = NoMsg
     /\ \E frame \in Frames : handle_frame_abort(num_ifc + 1, frame)
     /\ UNCHANGED <<stdin, stdout>>
     /\ UNCHANGED loopvars
     /\ UNCHANGED writevars
  \/ /\ loop_consume
     /\ UNCHANGED <<stdin, stdout>>
     /\ UNCHANGED loopvars
     /\ UNCHANGED writevars

Spec == Init /\ [][Next]_vars

(***************************************************************************)
(* Learning under load: one station more than the table has slots.  The    *)
(* stations are numbered in the order of their first frame; station 1      *)
(* sends on every port, the others always on the same port.  All ports are *)
(* untagged members of VLAN 1 and every frame is a 14-byte broadcast.      *)
(***************************************************************************)
Station(n) == <<2, 0, 0, 0, 0, n>>

StationFrame(n) == UntaggedFrame(MacBcast, Station(n), <<8, 0>>)

StationPorts(n) ==
  IF n = 1 THEN 1..num_ifc ELSE {((n - 1) % num_ifc) + 1}

FirstSeenInOrder(n) ==
  \/ n = 1
  \/ search_lookup_table(lookupTable, Station(n)) # -1
  \/ search_lookup_table(lookupTable, Station(n - 1)) # -1

InitLearn ==
  /\ argv = [i \in 1..NumPorts |-> UntaggedSpec(1)]
  /\ gifc = main(argv).ifc
  /\ lookupTable = ZeroTable
  /\ status = "running"
  /\ rx = NoMsg
  /\ tx = <<>>
  /\ prev = ZeroTable
  /\ oob = FALSE
  /\ stdin = <<>>
  /\ stdout = <<>>
  /\ input = <<>>
  /\ nread = 0
  /\ buf = <<>>
  /\ have_mac = 0
  /\ dispatched = <<>>
  /\ fd = <<>>
  /\ cbuf = <<>>
  /\ wr_off = 0
  /\ ret = 0
  /\ wr_k = 0
  /\ inserted = <<>>

NextLearn ==
  \/ /\ rx = NoMsg
     /\ \E n \in 1..(NBR_ENTRIES + 1) : \E interface \in StationPorts(n) :
          /\ FirstSeenInOrder(n)
          /\ handle_frame(interface, StationFrame(n))
     /\ UNCHANGED <<stdin, stdout>>
     /\ UNCHANGED loopvars
     /\ UNCHANGED writevars
  \/ /\ loop_consume
     /\ UNCHANGED <<stdin, stdout>>
     /\ UNCHANGED loopvars
     /\ UNCHANGED writevars

SpecLearn == InitLearn /\ [][NextLearn]_vars

(***************************************************************************)
(* Short frames: every prefix of a tagged and of an untagged frame, from   *)
(* the empty frame to the whole frame, on ports that are tagged or         *)
(* untagged members of VLAN 1.                                             *)
(***************************************************************************)
Prefix(f, n) == Bytes(f, 0, n - 1)

\* An 18-byte tagged frame (VID 1) and a 14-byte untagged frame for each
\* destination and source.
WholeFrames ==
  {TaggedFrame(x[1], x[2], 1, <<8, 0>>) : x \in DstMacs \X {MacA, MacB}}
    \cup {UntaggedFrame(x[1], x[2], <<8, 0>>) : x \in DstMacs \X {MacA, MacB}}

ShortFrames == UNION {{Prefix(f, n) : n \in 0..Len(f)} : f \in WholeFrames}

ShortPortSpecs == {UntaggedSpec(1), TaggedSpec(<<1>>)}

InitShort ==
  /\ argv \in [1..NumPorts -> ShortPortSpecs]
  /\ gifc = main(argv).ifc
  /\ lookupTable = ZeroTable
  /\ status = "running"
  /\ rx = NoMsg
  /\ tx = <<>>
  /\ prev = ZeroTable
  /\ oob = FALSE
  /\ stdin = <<>>
  /\ stdout = <<>>
  /\ input = <<>>
  /\ nread = 0
  /\ buf = <<>>
  /\ have_mac = 0
  /\ dispatched = <<>>
  /\ fd = <<>>
  /\ cbuf = <<>>
  /\ wr_off = 0
  /\ ret = 0
  /\ wr_k = 0
  /\ inserted = <<>>

NextShort ==
  \/ /\ rx = NoMsg
     /\ \E interface \in 1..num_ifc : \E frame \in ShortFrames :
          handle_frame(interface, frame)
     /\ UNCHANGED <<stdin, stdout>>
     /\ UNCHANGED loopvars
     /\ UNCHANGED writevars
  \/ /\ loop_consume
     /\ UNCHANGED <<stdin, stdout>>
     /\ UNCHANGED loopvars
     /\ UNCHANGED writevars

SpecShort == InitShort /\ [][NextShort]_vars

(***************************************************************************)
(* The message streams of loop(): stdin holds the complete inbound         *)
(* messages that loop() has not yet removed from its buffer, each with its *)
(* position in the stream; stdout holds the outbound messages in the order *)
(* of their write_all() calls, each with the position and the ingress port *)
(* of the inbound message that was being handled when it was written.      *)
(***************************************************************************)
MaxStream == 3

LoopFrames ==
  {UntaggedFrame(MacBcast, MacA, <<8, 0>>), UntaggedFrame(MacA, MacB, <<8, 0>>)}

\* Inbound streams of up to MaxStream frame messages; a message may name
\* the port index num_ifc + 1, which the switch does not have.
Streams ==
  UNION {[1..n -> [pos : {0}, ifc : 1..(NumPorts + 1), frame : LoopFrames]] :
           n \in 0..MaxStream}

Numbered(s) == [i \in DOMAIN s |-> [s[i] EXCEPT !.pos = i]]

\* Variant of write_stdout that puts the messages in front of the stream.
write_stdout_at_front(stream, msgs, m) ==
  [k \in DOMAIN msgs |-> [of |-> m.pos, ifc |-> m.ifc, msg |-> msgs[k]]]
    \o stream

\* forward_to() hands each message to write_all(), which returns when the
\* whole message is written.
write_stdout(stream, msgs, m) ==
  stream
    \o [k \in DOMAIN msgs |-> [of |-> m.pos, ifc |-> m.ifc, msg |-> msgs[k]]]

InitLoop ==
  /\ argv \in [1..NumPorts -> ShortPortSpecs]
  /\ gifc = main(argv).ifc
  /\ lookupTable = ZeroTable
  /\ status = "running"
  /\ rx = NoMsg
  /\ tx = <<>>
  /\ prev = ZeroTable
  /\ oob = FALSE
  /\ stdin \in {Numbered(s) : s \in Streams}
  /\ stdout = <<>>
  /\ input = <<>>
  /\ nread = 0
  /\ buf = <<>>
  /\ have_mac = 0
  /\ dispatched = <<>>
  /\ fd = <<>>
  /\ cbuf = <<>>
  /\ wr_off = 0
  /\ ret = 0
  /\ wr_k = 0
  /\ inserted = <<>>

\* loop() calls the frame handler for the first message of its buffer and
\* removes the message when the handler has returned.
NextLoop ==
  \/ /\ stdin # <<>>
     /\ handle_frame(Head(stdin).ifc, Head(stdin).frame)
     /\ stdout' = write_stdout(stdout, tx', Head(stdin))
     /\ UNCHANGED stdin
     /\ UNCHANGED loopvars
     /\ UNCHANGED writevars
  \/ /\ stdin # <<>>
     /\ handle_frame_abort(Head(stdin).ifc, Head(stdin).frame)
     /\ UNCHANGED <<stdin, stdout>>
     /\ UNCHANGED loopvars
     /\ UNCHANGED writevars
  \/ /\ loop_consume
     /\ stdin' = Tail(stdin)
     /\ UNCHANGED stdout
     /\ UNCHANGED loopvars
     /\ UNCHANGED writevars

SpecLoop == InitLoop /\ [][NextLoop]_vars

(***************************************************************************)
(* loop() byte by byte.  read() returns the next bytes of the inbound      *)
(* stream in chunks of any size; the inner loop of loop() runs while the   *)
(* buffer holds more than a header and at least the bytes that the size    *)
(* field announces.  A frame message is dispatched in one step and removed *)
(* from the buffer in the next, so that rx and tx show how it was handled; *)
(* a type-0 message is dispatched and removed in a single step.            *)
(*                                                                         *)
(* handle_control() writes a 0 over the last byte of its message, which    *)
(* memmove() then removes, and prints the text on stderr, which the model  *)
(* leaves out.                                                             *)
(***************************************************************************)
UINT16_MAX == 65535

ntohs(hi, lo) == hi * 256 + lo

\* A message of the driver protocol: struct GLAB_MessageHeader and payload.
Envelope(type, payload) ==
  htons(Len(payload) + GLAB_HEADER_SIZE) \o htons(type) \o payload

\* hdr.size and hdr.type of the message at the start of the buffer b.
HdrSize(b) == ntohs(b[1], b[2])

HdrType(b) == ntohs(b[3], b[4])

\* The inner while loop of loop() goes on to examine the header.
InnerLoopRuns(b) == Len(b) > GLAB_HEADER_SIZE /\ ~(Len(b) < HdrSize(b))

\* &buf[sizeof (hdr)] with size - sizeof (hdr) bytes.
Payload(b) == SubSeq(b, GLAB_HEADER_SIZE + 1, HdrSize(b))

\* memmove (buf, &buf[size], off - size).
memmove(b, size) == SubSeq(b, size + 1, Len(b))

\* Variant of handle_mac that takes ifc_num as the index into gifc.
handle_mac_index_from_zero(g, ifc_num, mac) ==
  IF ifc_num + 1 \in DOMAIN g THEN [g EXCEPT ![ifc_num + 1].mac = mac] ELSE g

\* gifc[ifc_num - 1].mac = *mac; the C index ifc_num - 1 is element ifc_num.
handle_mac(g, ifc_num, mac) == [g EXCEPT ![ifc_num].mac = mac]

\* The calls mh (i + 1, &mac) for i = from..(n - 1), as far as handle_mac
\* returns: the ports afterwards, and whether a call ended in abort().
RECURSIVE mac_calls(_, _, _, _)
mac_calls(g, b, from, n) ==
  IF from >= n THEN [gifc |-> g, aborted |-> FALSE]
  ELSE IF from + 1 > Len(g) THEN [gifc |-> g, aborted |-> TRUE]
  ELSE mac_calls(handle_mac(g, from + 1,
                            SubSeq(b, GLAB_HEADER_SIZE + from * 6 + 1,
                                   GLAB_HEADER_SIZE + from * 6 + 6)),
                 b, from + 1, n)

\* read() returns n further bytes of the inbound stream.
loop_read(n) ==
  /\ status = "running"
  /\ rx = NoMsg
  /\ ~InnerLoopRuns(buf)
  /\ n >= 1
  /\ n <= Len(input) - nread
  /\ n <= UINT16_MAX - Len(buf)
  /\ buf' = buf \o SubSeq(input, nread + 1, nread + n)
  /\ nread' = nread + n
  /\ UNCHANGED <<argv, gifc, lookupTable, inserted, status, rx, tx, prev, oob,
                 stdin, stdout, input, have_mac, dispatched>>

\* Variant of loop_eof that hands the bytes left in the buffer to the
\* control handler before loop() returns.
loop_eof_flushes_buffer ==
  /\ status = "running"
  /\ rx = NoMsg
  /\ ~InnerLoopRuns(buf)
  /\ nread = Len(input)
  /\ status' = "exit0"
  /\ dispatched' = IF buf = <<>> THEN dispatched
                   ELSE Append(dispatched, [type |-> 0, payload |-> buf])
  /\ UNCHANGED <<argv, gifc, lookupTable, inserted, rx, tx, prev, oob, stdin,
                 stdout, input, nread, buf, have_mac>>

\* read() returns 0 at the end of the inbound stream: loop() returns and
\* main() returns 0.
loop_eof ==
  /\ status = "running"
  /\ rx = NoMsg
  /\ ~InnerLoopRuns(buf)
  /\ nread = Len(input)
  /\ status' = "exit0"
  /\ UNCHANGED <<argv, gifc, lookupTable, inserted, rx, tx, prev, oob, stdin,
                 stdout, input, nread, buf, have_mac, dispatched>>

\* read() returns -1: loop() returns as well, with input left unread.
loop_read_error ==
  /\ status = "running"
  /\ rx = NoMsg
  /\ ~InnerLoopRuns(buf)
  /\ nread < Len(input)
  /\ status' = "exit0"
  /\ UNCHANGED <<argv, gifc, lookupTable, inserted, rx, tx, prev, oob, stdin,
                 stdout, input, nread, buf, have_mac, dispatched>>

\* Variant of loop_abort that skips the header of the malformed message
\* and goes on.
loop_abort_skips_header ==
  /\ status = "running"
  /\ rx = NoMsg
  /\ InnerLoopRuns(buf)
  /\ HdrSize(buf) < GLAB_HEADER_SIZE
  /\ buf' = memmove(buf, GLAB_HEADER_SIZE)
  /\ UNCHANGED <<argv, gifc, lookupTable, inserted, status, rx, tx, prev, oob,
                 stdin, stdout, input, nread, have_mac, dispatched>>

\* size < sizeof (struct GLAB_MessageHeader): abort().
loop_abort ==
  /\ status = "running"
  /\ rx = NoMsg
  /\ InnerLoopRuns(buf)
  /\ HdrSize(buf) < GLAB_HEADER_SIZE
  /\ status' = "aborted"
  /\ UNCHANGED <<argv, gifc, lookupTable, inserted, rx, tx, prev, oob, stdin,
                 stdout, input, nread, buf, have_mac, dispatched>>

\* The first type-0 message: mh() for each group of six payload bytes.
loop_mac ==
  /\ status = "running"
  /\ rx = NoMsg
  /\ InnerLoopRuns(buf)
  /\ HdrSize(buf) >= GLAB_HEADER_SIZE
  /\ HdrType(buf) = 0
  /\ have_mac = 0
  /\ LET r == mac_calls(gifc, buf, 0,
                        (HdrSize(buf) - GLAB_HEADER_SIZE) \div 6) IN
       /\ gifc' = r.gifc
       /\ IF r.aborted
            THEN /\ status' = "aborted"
                 /\ UNCHANGED <<buf, have_mac>>
            ELSE /\ have_mac' = 1
                 /\ buf' = memmove(buf, HdrSize(buf))
                 /\ UNCHANGED status
  /\ dispatched' = Append(dispatched, [type |-> 0, payload |-> Payload(buf)])
  /\ UNCHANGED <<argv, lookupTable, inserted, rx, tx, prev, oob, stdin, stdout,
                 input, nread>>

\* A later type-0 message: ch(), which is handle_control().
loop_control ==
  /\ status = "running"
  /\ rx = NoMsg
  /\ InnerLoopRuns(buf)
  /\ HdrSize(buf) >= GLAB_HEADER_SIZE
  /\ HdrType(buf) = 0
  /\ have_mac # 0
  /\ buf' = memmove(buf, HdrSize(buf))
  /\ dispatched' = Append(dispatched, [type |-> 0, payload |-> Payload(buf)])
  /\ UNCHANGED <<argv, gifc, lookupTable, inserted, status, rx, tx, prev, oob,
                 stdin, stdout, input, nread, have_mac>>

\* Any other type: fh(), which is handle_frame().
loop_frame ==
  /\ InnerLoopRuns(buf)
  /\ HdrSize(buf) >= GLAB_HEADER_SIZE
  /\ HdrType(buf) # 0
  /\ \/ /\ handle_frame(HdrType(buf), Payload(buf))
        /\ stdout' = write_stdout(stdout, tx',
                                  [pos |-> Len(dispatched) + 1,
                                   ifc |-> HdrType(buf)])
     \/ /\ handle_frame_abort(HdrType(buf), Payload(buf))
        /\ UNCHANGED stdout
  /\ dispatched' =
       Append(dispatched, [type |-> HdrType(buf), payload |-> Payload(buf)])
  /\ UNCHANGED <<stdin, input, nread, buf, have_mac>>

\* The frame handler has returned: memmove() removes the message.
loop_memmove ==
  /\ loop_consume
  /\ buf' = memmove(buf, HdrSize(buf))
  /\ UNCHANGED <<stdin, stdout, input, nread, have_mac, dispatched>>

\* The messages that the inbound streams are made of: the MAC addresses of
\* the ports, a line of text, a frame for port 1, a message of the header
\* alone for port 1 and for a port the switch does not have, and a header
\* whose size field is 3.
MacList(n) == [k \in 1..(6 * n) |-> IF k % 6 = 0 THEN (k \div 6) ELSE 2]

ByteMessages ==
  {Envelope(0, MacList(NumPorts)),
   Envelope(0, <<104, 10>>),
   Envelope(1, UntaggedFrame(MacBcast, MacA, <<8, 0>>)),
   Envelope(1, <<>>),
   Envelope(NumPorts + 1, <<>>),
   <<0, 3, 0, 1>>}

\* What may follow the last whole message: nothing, or the first bytes of a
\* message that the stream ends in.
Tails == {<<>>, <<0>>, <<0, 18, 0, 1, 255, 255>>}

RECURSIVE Concat(_)
Concat(ms) == IF ms = <<>> THEN <<>> ELSE Head(ms) \o Concat(Tail(ms))

ByteStreams ==
  {Concat(ms) \o t :
     ms \in UNION {[1..n -> ByteMessages] : n \in 0..MaxStream}, t \in Tails}

InitBytes ==
  /\ argv = [i \in 1..NumPorts |-> UntaggedSpec(1)]
  /\ gifc = main(argv).ifc
  /\ lookupTable = ZeroTable
  /\ status = "running"
  /\ rx = NoMsg
  /\ tx = <<>>
  /\ prev = ZeroTable
  /\ oob = FALSE
  /\ stdin = <<>>
  /\ stdout = <<>>
  /\ input \in ByteStreams
  /\ nread = 0
  /\ buf = <<>>
  /\ have_mac = 0
  /\ dispatched = <<>>
  /\ fd = <<>>
  /\ cbuf = <<>>
  /\ wr_off = 0
  /\ ret = 0
  /\ wr_k = 0
  /\ inserted = <<>>

\* The sizes of the chunks that read() returns: one byte, two bytes, or all
\* that is left of the stream.  Every prefix of the stream is read this way.
ReadSizes == {1, 2, Len(input) - nread}

NextBytes ==
  \/ /\ \E n \in ReadSizes : loop_read(n)
     /\ UNCHANGED writevars
  \/ /\ loop_eof
     /\ UNCHANGED writevars
  \/ /\ loop_read_error
     /\ UNCHANGED writevars
  \/ /\ loop_abort
     /\ UNCHANGED writevars
  \/ /\ loop_mac
     /\ UNCHANGED writevars
  \/ /\ loop_control
     /\ UNCHANGED writevars
  \/ /\ loop_frame
     /\ UNCHANGED writevars
  \/ /\ loop_memmove
     /\ UNCHANGED writevars

SpecBytes == InitBytes /\ [][NextBytes]_vars

(***************************************************************************)
(* Frames of the largest sizes that fit an inbound message: the size field *)
(* of the envelope has 16 bits, so a payload has at most UINT16_MAX - 4    *)
(* bytes.  SpecJumbo handles one such frame at a time.                     *)
(***************************************************************************)
MaxPayload == UINT16_MAX - GLAB_HEADER_SIZE

JumboSizes == {MaxPayload}

\* An untagged broadcast frame of n bytes from src: EtherType 0x0800 and
\* zeros.
JumboFrame(src, n) ==
  UntaggedFrame(MacBcast, src, <<8, 0>> \o [k \in 1..(n - ETH_HEADER_SIZE) |-> 0])

JumboFrames == {JumboFrame(x[1], x[2]) : x \in {MacA, MacB} \X JumboSizes}

InitJumbo ==
  /\ argv \in [1..NumPorts -> ShortPortSpecs]
  /\ gifc = main(argv).ifc
  /\ lookupTable = ZeroTable
  /\ status = "running"
  /\ rx = NoMsg
  /\ tx = <<>>
  /\ prev = ZeroTable
  /\ oob = FALSE
  /\ stdin = <<>>
  /\ stdout = <<>>
  /\ input = <<>>
  /\ nread = 0
  /\ buf = <<>>
  /\ have_mac = 0
  /\ dispatched = <<>>
  /\ fd = <<>>
  /\ cbuf = <<>>
  /\ wr_off = 0
  /\ ret = 0
  /\ wr_k = 0
  /\ inserted = <<>>

NextJumbo ==
  \/ /\ rx = NoMsg
     /\ \E interface \in 1..num_ifc : \E frame \in JumboFrames :
          handle_frame(interface, frame)
     /\ UNCHANGED <<stdin, stdout>>
     /\ UNCHANGED loopvars
     /\ UNCHANGED writevars
  \/ /\ loop_consume
     /\ UNCHANGED <<stdin, stdout>>
     /\ UNCHANGED loopvars
     /\ UNCHANGED writevars

SpecJumbo == InitJumbo /\ [][NextJumbo]_vars

(***************************************************************************)
(* Command lines.  SpecArgs starts the switch with port specs that follow  *)
(* the grammar NAME, NAME[U:VID], NAME[T:VID,...] and with port specs that *)
(* do not, and then handles frames as Spec does.  When main() returns 1    *)
(* the process has exited before loop() and no action is enabled.          *)
(***************************************************************************)
Bracketed(body) == IfcName \o <<"[">> \o body \o <<"]">>

WellFormedArgs ==
  {IfcName}
    \cup {UntaggedSpec(v) : v \in {0, 1, MAX_VLANS}}
    \cup {TaggedSpec(l) : l \in {<<1>>, <<2, 1>>, <<1, MAX_VLANS>>}}

\* No ']', no ':', a VID that is no number or is empty, a VID above
\* MAX_VLANS (4093, and 2^32 + 1 = 4294967297), another letter, no letter.
MalformedArgs ==
  {IfcName \o <<"[", "U", ":", "1">>,
   Bracketed(<<"U", "1">>),
   Bracketed(<<"T", "1">>),
   Bracketed(<<"U", ":", "x">>),
   Bracketed(<<"T", ":", "1", ",", "x">>),
   Bracketed(<<"T", ":", "1", "x">>),
   Bracketed(<<"U", ":">>),
   Bracketed(<<"T", ":">>),
   Bracketed(<<"U", ":">> \o Dec(MAX_VLANS + 1)),
   Bracketed(<<"T", ":", "1", ",">> \o Dec(MAX_VLANS + 1)),
   Bracketed(<<"U", ":", "4", "2", "9", "4", "9", "6", "7", "2", "9", "7">>),
   Bracketed(<<"X", ":", "1">>),
   Bracketed(<<>>)}

ArgTexts == WellFormedArgs \cup MalformedArgs

ArgFrames ==
  {UntaggedFrame(MacBcast, MacA, <<8, 0>>),
   TaggedFrame(MacBcast, MacA, 1, <<8, 0>>)}

InitArgs ==
  /\ argv \in [1..NumPorts -> ArgTexts]
  /\ gifc = main(argv).ifc
  /\ lookupTable = ZeroTable
  /\ status = IF main(argv).rc = 0 THEN "running" ELSE "exit1"
  /\ rx = NoMsg
  /\ tx = <<>>
  /\ prev = ZeroTable
  /\ oob = FALSE
  /\ stdin = <<>>
  /\ stdout = <<>>
  /\ input = <<>>
  /\ nread = 0
  /\ buf = <<>>
  /\ have_mac = 0
  /\ dispatched = <<>>
  /\ fd = <<>>
  /\ cbuf = <<>>
  /\ wr_off = 0
  /\ ret = 0
  /\ wr_k = 0
  /\ inserted = <<>>

NextArgs ==
  \/ /\ rx = NoMsg
     /\ \E interface \in 1..num_ifc : \E frame \in ArgFrames :
          handle_frame(interface, frame)
     /\ UNCHANGED <<stdin, stdout>>
     /\ UNCHANGED loopvars
     /\ UNCHANGED writevars
  \/ /\ loop_consume
     /\ UNCHANGED <<stdin, stdout>>
     /\ UNCHANGED loopvars
     /\ UNCHANGED writevars

SpecArgs == InitArgs /\ [][NextArgs]_vars

(***************************************************************************)
(* write_all() byte by byte.  forward_to() builds the message iob and      *)
(* hands it to write_all(), which calls write() until the whole message is *)
(* written; write() accepts any number of the remaining bytes, or returns  *)
(* 0 or -1, and then write_all() ends the process with exit (1).  The      *)
(* forward_to() calls of a handled frame are the messages of tx, made one  *)
(* after the other.                                                        *)
(***************************************************************************)
\* char iob[frame_size + sizeof (struct GLAB_MessageHeader)]: header, frame.
iob(msg) == htons(msg.size) \o htons(msg.type) \o msg.frame

InitWrite ==
  /\ argv \in [1..NumPorts -> ShortPortSpecs]
  /\ gifc = main(argv).ifc
  /\ lookupTable = ZeroTable
  /\ status = "running"
  /\ rx = NoMsg
  /\ tx = <<>>
  /\ prev = ZeroTable
  /\ oob = FALSE
  /\ stdin = <<>>
  /\ stdout = <<>>
  /\ input = <<>>
  /\ nread = 0
  /\ buf = <<>>
  /\ have_mac = 0
  /\ dispatched = <<>>
  /\ fd = <<>>
  /\ cbuf = <<>>
  /\ wr_off = 0
  /\ ret = 0
  /\ wr_k = 0
  /\ inserted = <<>>

\* forward_to() calls write_all() with the next message: off = 0.
write_all_call ==
  /\ status = "running"
  /\ rx # NoMsg
  /\ cbuf = <<>>
  /\ wr_k < Len(tx)
  /\ cbuf' = iob(tx[wr_k + 1])
  /\ wr_off' = 0
  /\ UNCHANGED <<argv, gifc, lookupTable, inserted, status, rx, tx, prev, oob,
                 fd, ret, wr_k>>

\* Variant of write that passes cbuf instead of &cbuf[off] to write().
write_from_start(n) ==
  /\ status = "running"
  /\ cbuf # <<>>
  /\ wr_off < Len(cbuf)
  /\ n >= 1
  /\ n <= Len(cbuf) - wr_off
  /\ ret' = n
  /\ fd' = fd \o SubSeq(cbuf, 1, n)
  /\ wr_off' = wr_off + n
  /\ UNCHANGED <<argv, gifc, lookupTable, inserted, status, rx, tx, prev, oob,
                 cbuf, wr_k>>

\* ret = write (fd, &cbuf[off], buf_size - off) with ret > 0: the descriptor
\* takes the next n bytes, and off += ret.
write(n) ==
  /\ status = "running"
  /\ cbuf # <<>>
  /\ wr_off < Len(cbuf)
  /\ n >= 1
  /\ n <= Len(cbuf) - wr_off
  /\ ret' = n
  /\ fd' = fd \o SubSeq(cbuf, wr_off + 1, wr_off + n)
  /\ wr_off' = wr_off + n
  /\ UNCHANGED <<argv, gifc, lookupTable, inserted, status, rx, tx, prev, oob,
                 cbuf, wr_k>>

\* write() returns r <= 0: exit (1).
write_fails(r) ==
  /\ status = "running"
  /\ cbuf # <<>>
  /\ wr_off < Len(cbuf)
  /\ r <= 0
  /\ ret' = r
  /\ status' = "exit1"
  /\ UNCHANGED <<argv, gifc, lookupTable, inserted, rx, tx, prev, oob, fd,
                 cbuf, wr_off, wr_k>>

\* off < buf_size is false: write_all() and forward_to() return.
write_all_return ==
  /\ status = "running"
  /\ cbuf # <<>>
  /\ ~(wr_off < Len(cbuf))
  /\ cbuf' = <<>>
  /\ wr_off' = 0
  /\ wr_k' = wr_k + 1
  /\ UNCHANGED <<argv, gifc, lookupTable, inserted, status, rx, tx, prev, oob,
                 fd, ret>>

\* The frame handler returns when all its forward_to() calls have returned.
handle_frame_return ==
  /\ loop_consume
  /\ cbuf = <<>>
  /\ wr_k = Len(tx)
  /\ fd' = <<>>
  /\ wr_k' = 0
  /\ ret' = 0
  /\ UNCHANGED <<cbuf, wr_off>>

\* The sizes of the chunks that write() accepts: one byte, two bytes, or
\* all that is left of the message.  Every offset is reached this way.
WriteSizes == {1, 2, Len(cbuf) - wr_off}

NextWrite ==
  \/ /\ rx = NoMsg
     /\ \E interface \in 1..num_ifc : \E frame \in LoopFrames :
          handle_frame(interface, frame)
     /\ UNCHANGED <<stdin, stdout>>
     /\ UNCHANGED loopvars
     /\ UNCHANGED writevars
  \/ /\ write_all_call
     /\ UNCHANGED <<stdin, stdout>>
     /\ UNCHANGED loopvars
  \/ /\ \E n \in WriteSizes : write(n)
     /\ UNCHANGED <<stdin, stdout>>
     /\ UNCHANGED loopvars
  \/ /\ \E r \in {-1, 0} : write_fails(r)
     /\ UNCHANGED <<stdin, stdout>>
     /\ UNCHANGED loopvars
  \/ /\ write_all_return
     /\ UNCHANGED <<stdin, stdout>>
     /\ UNCHANGED loopvars
  \/ /\ handle_frame_return
     /\ UNCHANGED <<stdin, stdout>>
     /\ UNCHANGED loopvars

SpecWrite == InitWrite /\ [][NextWrite]_vars

(***************************************************************************)
(* Learning with a station whose address is 00:00:00:00:00:00, the content *)
(* of the slots that lookup_table_init has prepared and nothing has        *)
(* written.  SpecZero is SpecLearn with this station in the place of       *)
(* station 2: it is the second station to appear, and like station 1 it    *)
(* sends on every port.                                                    *)
(***************************************************************************)
ZeroStation(n) == IF n = 2 THEN ZeroMac ELSE Station(n)

ZeroStationFrame(n) == UntaggedFrame(MacBcast, ZeroStation(n), <<8, 0>>)

ZeroStationPorts(n) == IF n = 2 THEN 1..num_ifc ELSE StationPorts(n)

ZeroFirstSeenInOrder(n) ==
  \/ n = 1
  \/ holds(lookupTable, ZeroStation(n))
  \/ holds(lookupTable, ZeroStation(n - 1))

InitZero ==
  /\ argv = [i \in 1..NumPorts |-> UntaggedSpec(1)]
  /\ gifc = main(argv).ifc
  /\ lookupTable = ZeroTable
  /\ status = "running"
  /\ rx = NoMsg
  /\ tx = <<>>
  /\ prev = ZeroTable
  /\ oob = FALSE
  /\ stdin = <<>>
  /\ stdout = <<>>
  /\ input = <<>>
  /\ nread = 0
  /\ buf = <<>>
  /\ have_mac = 0
  /\ dispatched = <<>>
  /\ fd = <<>>
  /\ cbuf = <<>>
  /\ wr_off = 0
  /\ ret = 0
  /\ wr_k = 0
  /\ inserted = <<>>

NextZero ==
  \/ /\ rx = NoMsg
     /\ \E n \in 1..(NBR_ENTRIES + 1) : \E interface \in ZeroStationPorts(n) :
          /\ ZeroFirstSeenInOrder(n)
          /\ handle_frame(interface, ZeroStationFrame(n))
     /\ UNCHANGED <<stdin, stdout>>
     /\ UNCHANGED loopvars
     /\ UNCHANGED writevars
  \/ /\ loop_consume
     /\ UNCHANGED <<stdin, stdout>>
     /\ UNCHANGED loopvars
     /\ UNCHANGED writevars

SpecZero == InitZero /\ [][NextZero]_vars

(***************************************************************************)
(* Vocabulary of the properties                                            *)
(***************************************************************************)
\* The last message was a frame on a configured port and has been handled.
Handled == status = "running" /\ rx # NoMsg

Dst(f) == Bytes(f, 0, 5)
Src(f) == Bytes(f, 6, 11)

HasQTag(f) == Len(f) >= ETH_HEADER_SIZE /\ U16(f, 12) = ETH_802_1Q_TAG

Vid(f) == U16(f, 14) % 4096

TaggedVlans(q) ==
  {gifc[q].tagged_vlans[k] : k \in 1..(Len(gifc[q].tagged_vlans) - 1)}

TaggedMember(q, v) == v \in TaggedVlans(q)

UntaggedMember(q, v) == v # NO_VLAN /\ gifc[q].untagged_vlan = v

Member(q, v) == TaggedMember(q, v) \/ UntaggedMember(q, v)

\* VLAN of the handled frame: the tag's VID, else the port's untagged VLAN.
IngressVlan ==
  IF HasQTag(rx.frame) THEN Vid(rx.frame) ELSE gifc[rx.ifc].untagged_vlan

\* The ingress port may carry the frame: tagged member for a tagged frame,
\* untagged member for an untagged frame.
IngressAccepted ==
  IF HasQTag(rx.frame) THEN TaggedMember(rx.ifc, IngressVlan)
  ELSE UntaggedMember(rx.ifc, IngressVlan)

EgressSet == {q \in 1..num_ifc : q # rx.ifc /\ Member(q, IngressVlan)}

TxPorts == {tx[k].type : k \in DOMAIN tx}

Occupied(lt, i) == i < lt.nbr_position /\ lt.table[i].ifc_num # IF_NO_INIT

\* The learning table as a set of (mac, port) entries.
Entries(lt) ==
  {<<lt.table[i].mac, lt.table[i].ifc_num>> :
     i \in {j \in 0..(NBR_ENTRIES - 1) : Occupied(lt, j)}}

LearnedPorts(lt, mac) == {e[2] : e \in {x \in Entries(lt) : x[1] = mac}}

\* What a slot holds for the switch: nothing, or a (mac, port) entry.
SlotView(lt, i) ==
  IF Occupied(lt, i) THEN <<lt.table[i].mac, lt.table[i].ifc_num>> ELSE <<>>

(***************************************************************************)
(* C1  Port isolation: a handled frame is emitted only on ports that       *)
(* participate in its ingress VLAN, and only if its ingress port is a      *)
(* member of that VLAN.                                                    *)
(***************************************************************************)
C1_PortIsolation ==
  (Handled /\ tx # <<>>) =>
     /\ Member(rx.ifc, IngressVlan)
     /\ \A k \in DOMAIN tx : Member(tx[k].type, IngressVlan)

(***************************************************************************)
(* C2  No self-loop: no emission of a handled frame has the ingress port   *)
(* as its egress port.                                                     *)
(***************************************************************************)
C2_NoSelfLoop ==
  Handled => \A k \in DOMAIN tx : tx[k].type # rx.ifc

(***************************************************************************)
(* C3  Tag correctness on tagged egress: a frame emitted on a tagged       *)
(* member of the ingress VLAN carries TPID 0x8100 at offset 12 and the     *)
(* ingress VLAN as VID.                                                    *)
(***************************************************************************)
C3_TaggedEgressCarriesVid ==
  Handled =>
    \A k \in DOMAIN tx :
      TaggedMember(tx[k].type, IngressVlan) =>
        /\ HasQTag(tx[k].frame)
        /\ Vid(tx[k].frame) = IngressVlan

(***************************************************************************)
(* C4  Tag correctness on untagged egress: a frame emitted on an untagged  *)
(* member of the ingress VLAN carries no 802.1Q tag.                       *)
(***************************************************************************)
C4_UntaggedEgressCarriesNoTag ==
  Handled =>
    \A k \in DOMAIN tx :
      UntaggedMember(tx[k].type, IngressVlan) => ~HasQTag(tx[k].frame)

(***************************************************************************)
(* C5  Source drop: a frame whose source MAC has the multicast bit set     *)
(* produces no emission and leaves every slot and the cursor of the        *)
(* learning table as they were; no occupied slot ever holds a multicast    *)
(* MAC.                                                                    *)
(***************************************************************************)
C5_SourceDrop ==
  /\ (Handled /\ ~IsUnicast(Src(rx.frame))) =>
        /\ tx = <<>>
        /\ \A i \in 0..(NBR_ENTRIES - 1) :
             SlotView(lookupTable, i) = SlotView(prev, i)
        /\ lookupTable.current_position = prev.current_position
  /\ \A e \in Entries(lookupTable) : IsUnicast(e[1])

\* A multicast-source frame arrives when the table already holds an entry
\* and another port shares the frame's VLAN.
C5_Witness ==
  /\ Handled
  /\ ~IsUnicast(Src(rx.frame))
  /\ Entries(prev) # {}
  /\ IngressAccepted
  /\ EgressSet # {}

(***************************************************************************)
(* C6  Cross-VLAN learned drop: a unicast destination that the table maps  *)
(* to a port outside the egress set of the ingress VLAN is dropped.        *)
(***************************************************************************)
C6_CrossVlanLearnedDrop ==
  (Handled /\ IsUnicast(Dst(rx.frame))) =>
    \A q \in LearnedPorts(lookupTable, Dst(rx.frame)) :
      q \notin EgressSet => tx = <<>>

(***************************************************************************)
(* C7  Learned unicast delivery: a frame whose destination was learned on  *)
(* another port of its VLAN is emitted on that port only; while the        *)
(* destination is not learned the frame is flooded to the egress set.      *)
(***************************************************************************)
C7_LearnedUnicastDelivery ==
  (Handled /\ IsUnicast(Src(rx.frame)) /\ IsUnicast(Dst(rx.frame))
     /\ IngressAccepted) =>
    /\ \A q \in LearnedPorts(lookupTable, Dst(rx.frame)) :
         q \in EgressSet => (Len(tx) = 1 /\ TxPorts = {q})
    /\ LearnedPorts(lookupTable, Dst(rx.frame)) = {} => TxPorts = EgressSet

(***************************************************************************)
(* C8  Flood of untagged ingress: an untagged frame with broadcast,        *)
(* multicast or unlearned unicast destination on a port with untagged      *)
(* VLAN v is emitted on exactly the other ports that have untagged VLAN v  *)
(* or have v anywhere in their tagged list.                                *)
(***************************************************************************)
C8_UntaggedFlood ==
  (Handled /\ ~HasQTag(rx.frame) /\ IsUnicast(Src(rx.frame))
     /\ gifc[rx.ifc].untagged_vlan # NO_VLAN
     /\ (~IsUnicast(Dst(rx.frame))
           \/ LearnedPorts(lookupTable, Dst(rx.frame)) = {})) =>
    TxPorts =
      {q \in 1..num_ifc :
         /\ q # rx.ifc
         /\ \/ gifc[q].untagged_vlan = gifc[rx.ifc].untagged_vlan
            \/ gifc[rx.ifc].untagged_vlan \in TaggedVlans(q)}

(***************************************************************************)
(* C9  Tagged-ingress membership check: a tagged frame whose VID is not    *)
(* in the ingress port's tagged list produces no emission.                 *)
(***************************************************************************)
C9_TaggedIngressMembership ==
  (Handled /\ HasQTag(rx.frame)
     /\ ~TaggedMember(rx.ifc, Vid(rx.frame))) => tx = <<>>

(***************************************************************************)
(* C10  A frame with TPID 0x8100 that ingresses on a port configured as    *)
(* an untagged member produces no emission.                                *)
(***************************************************************************)
C10_TaggedOnUntaggedPortSilenced ==
  (Handled /\ HasQTag(rx.frame)
     /\ gifc[rx.ifc].untagged_vlan # NO_VLAN) => tx = <<>>

(***************************************************************************)
(* C11  An untagged frame that ingresses on a port without untagged        *)
(* membership (untagged_vlan = NO_VLAN) produces no emission on any port,  *)
(* whatever the learning table holds.                                      *)
(***************************************************************************)
C11_UntaggedOnTaggedOnlyPortDropped ==
  (Handled /\ ~HasQTag(rx.frame)
     /\ gifc[rx.ifc].untagged_vlan = NO_VLAN) => tx = <<>>

(***************************************************************************)
(* C12  Tag stripping: a tagged frame of L >= 18 bytes that ingresses on a *)
(* tagged member of its VLAN v and is emitted on an untagged member of v   *)
(* leaves with L - 4 bytes, bytes 0..11 as received and bytes 12.. equal   *)
(* to the received bytes 16..; ports that are no members of v receive      *)
(* nothing.                                                                *)
(***************************************************************************)
C12_TagStripping ==
  (Handled /\ HasQTag(rx.frame) /\ Len(rx.frame) >= 18
     /\ TaggedMember(rx.ifc, Vid(rx.frame))) =>
    \A k \in DOMAIN tx :
      /\ Member(tx[k].type, Vid(rx.frame))
      /\ UntaggedMember(tx[k].type, Vid(rx.frame)) =>
           tx[k].frame = Bytes(rx.frame, 0, 11)
                           \o Bytes(rx.frame, 16, Len(rx.frame) - 1)

(***************************************************************************)
(* C13  Tag insertion: an untagged frame of L bytes that ingresses on an   *)
(* untagged member of VLAN v and is emitted on a tagged member of v leaves *)
(* with L + 4 bytes: bytes 0..11 as received, 0x8100 at offset 12, a TCI   *)
(* with PCP = 0 and DEI = 0 at offset 14, and the received bytes 12.. from *)
(* offset 16 on.                                                           *)
(***************************************************************************)
C13_TagInsertion ==
  (Handled /\ ~HasQTag(rx.frame)
     /\ gifc[rx.ifc].untagged_vlan # NO_VLAN) =>
    \A k \in DOMAIN tx :
      TaggedMember(tx[k].type, gifc[rx.ifc].untagged_vlan) =>
        /\ Len(tx[k].frame) = Len(rx.frame) + 4
        /\ Bytes(tx[k].frame, 0, 11) = Bytes(rx.frame, 0, 11)
        /\ U16(tx[k].frame, 12) = ETH_802_1Q_TAG
        /\ U16(tx[k].frame, 14) \div 4096 = 0
        /\ Bytes(tx[k].frame, 16, Len(tx[k].frame) - 1)
             = Bytes(rx.frame, 12, Len(rx.frame) - 1)

\* The bytes that follow the Ethernet header, after the 802.1Q shim if any.
PayloadOf(f) ==
  IF HasQTag(f) THEN Bytes(f, 18, Len(f) - 1)
  ELSE Bytes(f, ETH_HEADER_SIZE, Len(f) - 1)

(***************************************************************************)
(* C14  Payload preservation: every emission of a handled frame has the    *)
(* destination and source MAC of the ingress frame and the same bytes, in  *)
(* number and value, after the Ethernet header and the 802.1Q shim; a      *)
(* tagged frame emitted on a tagged member keeps its TCI bit for bit.      *)
(***************************************************************************)
C14_PayloadPreservation ==
  Handled =>
    \A k \in DOMAIN tx :
      /\ Dst(tx[k].frame) = Dst(rx.frame)
      /\ Src(tx[k].frame) = Src(rx.frame)
      /\ PayloadOf(tx[k].frame) = PayloadOf(rx.frame)
      /\ (HasQTag(rx.frame) /\ TaggedMember(tx[k].type, IngressVlan)) =>
           /\ HasQTag(tx[k].frame)
           /\ U16(tx[k].frame, 14) = U16(rx.frame, 14)

(***************************************************************************)
(* C15  Move-on-change idempotence: learning (M, p) when the table holds   *)
(* (M, p) leaves every slot and the cursor as they were; learning (M, p')  *)
(* when the table holds (M, p) with p' # p changes the port of M's slot    *)
(* and nothing else.                                                       *)
(***************************************************************************)
C15_MoveOnChange ==
  (Handled /\ IsUnicast(Src(rx.frame))) =>
    \A i \in 0..(NBR_ENTRIES - 1) :
      (Occupied(prev, i) /\ prev.table[i].mac = Src(rx.frame)) =>
        IF prev.table[i].ifc_num = rx.ifc
          THEN lookupTable = prev
          ELSE lookupTable = [prev EXCEPT !.table[i].ifc_num = rx.ifc]

\* A station that the table holds with one port sends on another port while
\* the table holds a second station.
C15_Witness ==
  /\ Handled
  /\ IsUnicast(Src(rx.frame))
  /\ \E i \in 0..(NBR_ENTRIES - 1) :
       /\ Occupied(prev, i)
       /\ prev.table[i].mac = Src(rx.frame)
       /\ prev.table[i].ifc_num # rx.ifc
       /\ lookupTable.table[i].ifc_num = rx.ifc
  /\ Cardinality(Entries(prev)) = 2

OccupiedSlots(lt) == {i \in 0..(NBR_ENTRIES - 1) : Occupied(lt, i)}

(***************************************************************************)
(* C16  MAC uniqueness: no two occupied slots of the learning table hold   *)
(* the same MAC address, after fresh inserts, moves in place and           *)
(* overwrites after the cursor has wrapped around.                         *)
(***************************************************************************)
C16_MacUniqueness ==
  \A i \in OccupiedSlots(lookupTable) : \A j \in OccupiedSlots(lookupTable) :
    lookupTable.table[i].mac = lookupTable.table[j].mac => i = j

\* The table is full, the cursor has wrapped around, and station 1, once
\* overwritten, has come back into slot 1 and then moved to port 2.
C16_Witness ==
  /\ Handled
  /\ Cardinality(OccupiedSlots(lookupTable)) = NBR_ENTRIES
  /\ lookupTable.table[1] = [mac |-> Station(1), ifc_num |-> 2]
  /\ prev.table[1] = [mac |-> Station(1), ifc_num |-> 1]
  /\ lookupTable.table[0].mac = Station(NBR_ENTRIES + 1)

(***************************************************************************)
(* C17  Bounded learning: the number of occupied slots never exceeds the   *)
(* capacity of 8 and the write cursor stays in 0..7; learning a ninth      *)
(* distinct MAC into the full table leaves 8 occupied slots, of which      *)
(* exactly one, the slot at the cursor, has changed.                       *)
(***************************************************************************)
C17_BoundedLearning ==
  /\ Cardinality(Entries(lookupTable)) <= NBR_ENTRIES
  /\ lookupTable.current_position \in 0..(NBR_ENTRIES - 1)
  /\ DOMAIN lookupTable.table = 0..(NBR_ENTRIES - 1)
  /\ (Handled /\ IsUnicast(Src(rx.frame))
        /\ Cardinality(OccupiedSlots(prev)) = NBR_ENTRIES
        /\ LearnedPorts(prev, Src(rx.frame)) = {}) =>
       /\ Cardinality(OccupiedSlots(lookupTable)) = NBR_ENTRIES
       /\ {i \in 0..(NBR_ENTRIES - 1) : lookupTable.table[i] # prev.table[i]}
            = {prev.current_position}
       /\ lookupTable.table[prev.current_position]
            = [mac |-> Src(rx.frame), ifc_num |-> rx.ifc]

\* The ninth station sends for the first time while the other eight fill
\* the table.
C17_Witness ==
  /\ Handled
  /\ Src(rx.frame) = Station(NBR_ENTRIES + 1)
  /\ Cardinality(OccupiedSlots(prev)) = NBR_ENTRIES
  /\ LearnedPorts(prev, Src(rx.frame)) = {}

(***************************************************************************)
(* C18  Short frame drop: a frame of fewer than 14 bytes on a configured   *)
(* port produces no emission and leaves every slot and the cursor of the   *)
(* learning table as they were, and the loop goes on to the next message.  *)
(***************************************************************************)
C18_ShortFrameDrop ==
  (rx # NoMsg /\ rx.ifc <= num_ifc /\ Len(rx.frame) < ETH_HEADER_SIZE) =>
    /\ tx = <<>>
    /\ \A i \in 0..(NBR_ENTRIES - 1) :
         SlotView(lookupTable, i) = SlotView(prev, i)
    /\ lookupTable.current_position = prev.current_position
    /\ status = "running"
    /\ ENABLED (loop_consume /\ UNCHANGED <<stdin, stdout>> /\ UNCHANGED loopvars
               /\ UNCHANGED writevars)

\* A 13-byte frame with a unicast source that the table does not hold
\* arrives when the table holds another station and a second port shares
\* the VLAN of the ingress port.
C18_Witness ==
  /\ Handled
  /\ Len(rx.frame) = ETH_HEADER_SIZE - 1
  /\ IsUnicast(Bytes(rx.frame, 6, 11))
  /\ Entries(prev) # {}
  /\ LearnedPorts(prev, Bytes(rx.frame, 6, 11)) = {}
  /\ \E q \in 1..num_ifc : q # rx.ifc /\ Member(q, 1) /\ Member(rx.ifc, 1)

(***************************************************************************)
(* C19  Short tagged frame drop: a frame with 0x8100 at offset 12 and a    *)
(* length of 14..17 bytes produces no emission on any port.                *)
(***************************************************************************)
C19_ShortTaggedFrameDrop ==
  (Handled /\ HasQTag(rx.frame) /\ Len(rx.frame) < 18) => tx = <<>>

Reassembled(d) == Concat([k \in DOMAIN d |-> Envelope(d[k].type, d[k].payload)])

\* loop() waits in read() and the inbound stream has no further byte.
AtEOF ==
  /\ status = "running"
  /\ rx = NoMsg
  /\ ~InnerLoopRuns(buf)
  /\ nread = Len(input)

\* C21: clean termination on EOF.  When read() finds the end of the inbound
\* stream, the next step of the process is the return of main() with 0; and
\* when the process has exited with 0, the handler calls made are exactly
\* the messages in front of the bytes left in the buffer, so the bytes of a
\* trailing incomplete message were never dispatched, and every outbound
\* message was written for one of the dispatched messages.
C21_CleanEOF ==
  /\ [][AtEOF => status' = "exit0"]_vars
  /\ [](status = "exit0" =>
          /\ Reassembled(dispatched) \o buf = SubSeq(input, 1, nread)
          /\ ~InnerLoopRuns(buf)
          /\ \A k \in DOMAIN stdout :
               /\ stdout[k].of \in DOMAIN dispatched
               /\ dispatched[stdout[k].of].type = stdout[k].ifc)

\* The process has exited with 0 at the end of a stream that ends within a
\* message whose header was complete, after a frame that was emitted.
C21_Witness ==
  /\ status = "exit0"
  /\ nread = Len(input)
  /\ Len(buf) > GLAB_HEADER_SIZE
  /\ stdout # <<>>

\* The 1-based offsets in the byte stream s, from offset k on, at which a
\* message starts when the stream is cut along the size fields, up to and
\* including the first header whose size field is less than 4.
RECURSIVE MessageStarts(_, _)
MessageStarts(s, k) ==
  IF k + GLAB_HEADER_SIZE - 1 > Len(s) THEN {}
  ELSE LET size == ntohs(s[k], s[k + 1])
       IN  IF size < GLAB_HEADER_SIZE THEN {k} ELSE {k} \cup MessageStarts(s, k + size)

\* The input holds a header whose size field is less than 4, at offset
\* FramingErrorAt.
HasFramingError ==
  \E k \in MessageStarts(input, 1) : ntohs(input[k], input[k + 1]) < GLAB_HEADER_SIZE

FramingErrorAt ==
  CHOOSE k \in MessageStarts(input, 1) : ntohs(input[k], input[k + 1]) < GLAB_HEADER_SIZE

\* C22: a framing error is fatal.  When the inbound stream holds an envelope
\* whose size field is less than 4, the handler calls made are at any time
\* messages that lie in front of that envelope, so neither the envelope nor
\* anything after it is dispatched; once loop() examines the envelope its
\* next step is abort(); and a process that has read the envelope does not
\* run on when the stream has ended.
C22_FramingErrorFatal ==
  /\ [](HasFramingError =>
          /\ Len(Reassembled(dispatched)) <= FramingErrorAt - 1
          /\ Reassembled(dispatched)
               = SubSeq(input, 1, Len(Reassembled(dispatched))))
  /\ [][(/\ status = "running"
         /\ rx = NoMsg
         /\ InnerLoopRuns(buf)
         /\ HdrSize(buf) < GLAB_HEADER_SIZE) => status' = "aborted"]_vars
  /\ [][(HasFramingError /\ AtEOF) => status' = "exit0"]_vars

\* abort() has ended the process at a malformed envelope that followed a
\* dispatched frame and is itself followed by a whole frame message.
C22_Witness ==
  /\ status = "aborted"
  /\ HasFramingError
  /\ Len(buf) >= GLAB_HEADER_SIZE + 18
  /\ HdrSize(buf) < GLAB_HEADER_SIZE
  /\ stdout # <<>>

\* The step is a handler call for a type-0 message.
ControlDispatched ==
  /\ Len(dispatched') = Len(dispatched) + 1
  /\ dispatched'[Len(dispatched')].type = 0

\* The i-th group of six payload bytes of the message at the start of buf.
MacGroup(i) ==
  SubSeq(buf, GLAB_HEADER_SIZE + 6 * (i - 1) + 1, GLAB_HEADER_SIZE + 6 * i)

\* C23: control channel.  The first type-0 message sets the MAC of every
\* port i in 1..N to the i-th group of six bytes of its payload and changes
\* nothing else of the ports; every later type-0 message writes no outbound
\* message and leaves the learning table and the ports as they are; and no
\* step after the first type-0 message changes a port's MAC.
C23_ControlChannel ==
  /\ [][(ControlDispatched /\ have_mac = 0 /\ status' = "running") =>
          /\ have_mac' = 1
          /\ \A i \in 1..num_ifc :
               IF 6 * i <= HdrSize(buf) - GLAB_HEADER_SIZE
                 THEN gifc'[i] = [gifc[i] EXCEPT !.mac = MacGroup(i)]
                 ELSE gifc'[i] = gifc[i]
          /\ stdout' = stdout
          /\ lookupTable' = lookupTable]_vars
  /\ [][(ControlDispatched /\ have_mac # 0) =>
          /\ stdout' = stdout
          /\ tx' = tx
          /\ lookupTable' = lookupTable
          /\ gifc' = gifc
          /\ status' = status]_vars
  /\ [][have_mac # 0 => gifc' = gifc]_vars

\* After the MAC list gave every port its MAC and a frame was learned and
\* flooded, a further type-0 message has been dispatched.
C23_Witness ==
  /\ Len(dispatched) = 3
  /\ dispatched[1].type = 0
  /\ dispatched[2].type = 1
  /\ dispatched[3].type = 0
  /\ rx = NoMsg
  /\ stdout # <<>>
  /\ lookupTable.table[0].mac = MacA
  /\ \A i \in 1..num_ifc : gifc[i].mac = <<2, 2, 2, 2, 2, i>>

\* C24: outbound envelope.  Every outbound message written for a handled
\* frame has a type that is a port index in 1..N and a size field equal to
\* 4 plus the number of frame bytes that follow it, for inbound frames of
\* up to 65531 bytes and also when a tag was inserted.
C24_OutboundEnvelope ==
  Handled =>
    \A k \in DOMAIN tx :
      /\ tx[k].type \in 1..num_ifc
      /\ tx[k].size = GLAB_HEADER_SIZE + Len(tx[k].frame)
      /\ tx[k].size <= UINT16_MAX

\* The VIDs and VID lists that the well-formed port specs of SpecArgs name.
SpecVids == {0, 1, MAX_VLANS}

SpecVidLists == {<<1>>, <<2, 1>>, <<1, MAX_VLANS>>}

\* C25: port-spec parsing result.  A bare NAME gives untagged_vlan =
\* DEFAULT_VLAN and an empty tagged list, NAME[U:v] gives untagged_vlan = v
\* and an empty tagged list, NAME[T:v1,...,vk] gives untagged_vlan = NO_VLAN
\* and the tagged list v1..vk in that order with the NO_VLAN terminator; and
\* no port of a started switch has both an untagged VLAN and a tagged VLAN.
C25_ParsingResult ==
  status # "exit1" =>
    \A i \in DOMAIN argv :
      /\ gifc[i].ifc_num = i
      /\ argv[i] = IfcName =>
           /\ gifc[i].untagged_vlan = DEFAULT_VLAN
           /\ gifc[i].tagged_vlans = <<NO_VLAN>>
      /\ \A v \in SpecVids :
           argv[i] = UntaggedSpec(v) =>
             /\ gifc[i].untagged_vlan = v
             /\ gifc[i].tagged_vlans = <<NO_VLAN>>
      /\ \A l \in SpecVidLists :
           argv[i] = TaggedSpec(l) =>
             /\ gifc[i].untagged_vlan = NO_VLAN
             /\ gifc[i].tagged_vlans = l \o <<NO_VLAN>>
      /\ ~(gifc[i].untagged_vlan # NO_VLAN /\ gifc[i].tagged_vlans # <<NO_VLAN>>)

\* A switch runs whose ports were given as a bare NAME and as NAME[T:2,1],
\* and it has handled a frame.
C25_Witness ==
  /\ Handled
  /\ \E i \in DOMAIN argv : argv[i] = IfcName /\ gifc[i].untagged_vlan = 0
  /\ \E i \in DOMAIN argv :
       argv[i] = TaggedSpec(<<2, 1>>) /\ gifc[i].tagged_vlans = <<2, 1, NO_VLAN>>

\* The port spec arg as the grammar reads it: the positions of '[' and of
\* the ']' after it, the membership letter, and the VID texts, which are
\* the pieces between ':' and ']' that the commas separate (one piece for
\* the letter U).
OpenAt(arg) == strchr(arg, 1, "[")

CloseAt(arg) == strchr(arg, OpenAt(arg) + 1, "]")

MissingClose(arg) == OpenAt(arg) # 0 /\ CloseAt(arg) = 0

HasBrackets(arg) == OpenAt(arg) # 0 /\ CloseAt(arg) # 0

Letter(arg) == arg[OpenAt(arg) + 1]

UnknownLetter(arg) == HasBrackets(arg) /\ Letter(arg) \notin {"T", "U"}

MissingColon(arg) ==
  /\ HasBrackets(arg)
  /\ Letter(arg) \in {"T", "U"}
  /\ arg[OpenAt(arg) + 2] # ":"

HasVids(arg) ==
  HasBrackets(arg) /\ Letter(arg) \in {"T", "U"} /\ arg[OpenAt(arg) + 2] = ":"

RECURSIVE SplitAt(_, _)
SplitAt(s, delim) ==
  LET stop == strchr(s, 1, delim)
  IN  IF stop = 0 THEN <<s>>
      ELSE <<SubSeq(s, 1, stop - 1)>> \o SplitAt(SubSeq(s, stop + 1, Len(s)), delim)

VidTexts(arg) ==
  LET body == SubSeq(arg, OpenAt(arg) + 3, CloseAt(arg) - 1)
  IN  IF Letter(arg) = "T" THEN SplitAt(body, ",") ELSE <<body>>

Numeral(t) == t # <<>> /\ \A k \in DOMAIN t : IsDigit(t[k])

RECURSIVE StripZeros(_)
StripZeros(t) ==
  IF Len(t) > 1 /\ Head(t) = "0" THEN StripZeros(Tail(t)) ELSE t

RECURSIVE NumeralValue(_)
NumeralValue(t) ==
  IF t = <<>> THEN 0
  ELSE NumeralValue(SubSeq(t, 1, Len(t) - 1)) * 10 + DigitVal(t[Len(t)])

\* The numeral t denotes a number greater than MAX_VLANS.
ExceedsMaxVlans(t) ==
  \/ Len(StripZeros(t)) > 4
  \/ NumeralValue(StripZeros(t)) > MAX_VLANS

VidNotNumber(arg) ==
  HasVids(arg) /\ \E k \in DOMAIN VidTexts(arg) : ~Numeral(VidTexts(arg)[k])

VidTooLarge(arg) ==
  /\ HasVids(arg)
  /\ \E k \in DOMAIN VidTexts(arg) :
       Numeral(VidTexts(arg)[k]) /\ ExceedsMaxVlans(VidTexts(arg)[k])

TooManyVlans(arg) ==
  HasVids(arg) /\ Letter(arg) = "T" /\ Len(VidTexts(arg)) > MAX_VLANS

\* C26: port-spec rejection.  If a port spec of the command line lacks the
\* ']' after '[', lacks the ':' after the membership letter, has a VID that
\* is not a number, names a VID greater than 4092, lists more than 4092
\* tagged VLANs or has a membership letter other than 'T' and 'U', then the
\* process has exited with code 1: no frame is handled and nothing is
\* emitted.
C26_PortSpecRejection ==
  (\E i \in DOMAIN argv :
     \/ MissingClose(argv[i])
     \/ MissingColon(argv[i])
     \/ VidNotNumber(argv[i])
     \/ VidTooLarge(argv[i])
     \/ TooManyVlans(argv[i])
     \/ UnknownLetter(argv[i]))
    => (status = "exit1" /\ rx = NoMsg /\ tx = <<>>)

\* C27: every accepted port spec gives the port a membership.  Each port of
\* a started switch has an untagged VLAN or at least one tagged VLAN.
C27_MembershipAfterStartup ==
  status # "exit1" =>
    \A i \in 1..num_ifc :
      gifc[i].untagged_vlan # NO_VLAN \/ gifc[i].tagged_vlans # <<NO_VLAN>>

\* C28: tagged-ingress dispatch by the frame's VID.  A tagged frame with VID
\* v, unicast source and a destination that is not learned, which enters on
\* a port that has v anywhere in its tagged list, is emitted on exactly the
\* other ports that are members of v: verbatim on the tagged members of v
\* and without its tag on the untagged members of v.
C28_TaggedDispatchByVid ==
  (Handled /\ HasQTag(rx.frame) /\ Len(rx.frame) >= 18
     /\ IsUnicast(Src(rx.frame))
     /\ TaggedMember(rx.ifc, Vid(rx.frame))
     /\ (~IsUnicast(Dst(rx.frame))
           \/ LearnedPorts(lookupTable, Dst(rx.frame)) = {})) =>
    /\ TxPorts = {q \in 1..num_ifc : q # rx.ifc /\ Member(q, Vid(rx.frame))}
    /\ \A k \in DOMAIN tx :
         /\ TaggedMember(tx[k].type, Vid(rx.frame)) => tx[k].frame = rx.frame
         /\ UntaggedMember(tx[k].type, Vid(rx.frame)) =>
              tx[k].frame = Bytes(rx.frame, 0, 11)
                              \o Bytes(rx.frame, 16, Len(rx.frame) - 1)

\* C29: learn before lookup.  When a frame with unicast source has been
\* handled, the learning table holds its source with the ingress port; and
\* when the destination of the frame is its source, the destination lookup
\* has found the ingress port, so the frame left on the ingress port and on
\* no other, whether the table held that MAC with another port before, with
\* this port, or not at all.
C29_LearnBeforeLookup ==
  (Handled /\ Len(rx.frame) >= ETH_HEADER_SIZE /\ IsUnicast(Src(rx.frame))) =>
    /\ LearnedPorts(lookupTable, Src(rx.frame)) = {rx.ifc}
    /\ Dst(rx.frame) = Src(rx.frame) =>
         tx = <<forward_to(rx.ifc, rx.frame, Len(rx.frame))>>

\* A frame whose destination is its source has been handled on a port
\* other than the one the table held for that MAC before.
C29_Witness ==
  /\ Handled
  /\ Len(rx.frame) >= ETH_HEADER_SIZE
  /\ Dst(rx.frame) = Src(rx.frame)
  /\ LearnedPorts(prev, Src(rx.frame)) # {}
  /\ rx.ifc \notin LearnedPorts(prev, Src(rx.frame))
  /\ TxPorts = {rx.ifc}

\* The learning table that save_to_table found when the handled frame came
\* in: parse_frame initialises the table before its first use.
TableBefore == IF prev.nbr_position = 0 THEN lookup_table_init ELSE prev

\* C30: insert at cursor.  When the unicast source M of the handled frame
\* was absent from the table, the slot at the cursor of the table before
\* holds (M, p_in) whatever it held before, every other slot is as it was,
\* and the cursor is (cursor + 1) mod 8.
C30_InsertAtCursor ==
  (Handled /\ Len(rx.frame) >= ETH_HEADER_SIZE /\ IsUnicast(Src(rx.frame))
     /\ search_lookup_table(TableBefore, Src(rx.frame)) = -1) =>
    /\ lookupTable.table[TableBefore.current_position]
         = [mac |-> Src(rx.frame), ifc_num |-> rx.ifc]
    /\ \A i \in 0..(NBR_ENTRIES - 1) :
         i # TableBefore.current_position =>
           lookupTable.table[i] = TableBefore.table[i]
    /\ lookupTable.current_position
         = (TableBefore.current_position + 1) % NBR_ENTRIES
    /\ lookupTable.nbr_position = NBR_ENTRIES

\* The ninth station has been learned into slot 0 of the full table, over
\* the entry of the first station, and the cursor is at slot 1.
C30_Witness ==
  /\ Handled
  /\ Src(rx.frame) = Station(NBR_ENTRIES + 1)
  /\ prev.table[0].mac = Station(1)
  /\ Occupied(prev, 0)
  /\ prev.current_position = 0
  /\ lookupTable.table[0] = [mac |-> Station(NBR_ENTRIES + 1), ifc_num |-> rx.ifc]
  /\ lookupTable.current_position = 1

(***************************************************************************)
(* C31  A frame whose destination MAC has the multicast bit set never uses *)
(* the learning table: it is flooded to the egress set of its VLAN, and    *)
(* what is emitted is determined by the port configuration and the frame   *)
(* alone, whatever the learning table holds.                               *)
(***************************************************************************)
\* What the flood paths emit for the handled frame; no table is read.
FloodOnly(ub) ==
  IF HasQTag(rx.frame)
    THEN parse_tagged_frame(gifc[rx.ifc], rx.frame, Len(rx.frame))
    ELSE IF gifc[rx.ifc].untagged_vlan # NO_VLAN
      THEN parse_untagged_frame(gifc[rx.ifc], rx.frame, Len(rx.frame), ub)
      ELSE <<>>

C31_MulticastAlwaysFloods ==
  (Handled /\ Len(rx.frame) >= ETH_HEADER_SIZE
     /\ IsUnicast(Src(rx.frame)) /\ ~IsUnicast(Dst(rx.frame))) =>
    /\ tx \in {FloodOnly(ub) : ub \in UBOutcomes}
    /\ IngressAccepted => TxPorts = EgressSet

(***************************************************************************)
(* C32  Outbound write: the descriptor has received, in order and without  *)
(* gap or repetition, the messages of the forward_to() calls that have     *)
(* returned and the first off bytes of the message being written; every    *)
(* write() that accepts bytes delivers the bytes from the first unwritten  *)
(* one on, and a write() that returns 0 or -1 ends the process with exit   *)
(* code 1, after which the descriptor receives nothing more.               *)
(***************************************************************************)
\* The bytes of the first k messages of the handled frame.
RECURSIVE MessagesUpTo(_)
MessagesUpTo(k) ==
  IF k = 0 THEN <<>> ELSE MessagesUpTo(k - 1) \o iob(tx[k])

\* write_all() is about to call write().
InWrite == status = "running" /\ cbuf # <<>> /\ wr_off < Len(cbuf)

C32_WriteAll ==
  /\ [](/\ fd = MessagesUpTo(wr_k) \o SubSeq(cbuf, 1, wr_off)
        /\ cbuf # <<>> => (wr_k < Len(tx) /\ cbuf = iob(tx[wr_k + 1])))
  /\ [][InWrite =>
          \/ /\ ret' > 0
             /\ wr_off' = wr_off + ret'
             /\ fd' = fd \o SubSeq(cbuf, wr_off + 1, wr_off + ret')
             /\ status' = "running"
          \/ /\ ret' <= 0
             /\ fd' = fd
             /\ status' = "exit1"]_vars
  /\ [][status = "exit1" => fd' = fd]_vars

\* write() fails after short writes have delivered part of a message.
C32_Witness ==
  /\ status = "exit1"
  /\ ret = -1
  /\ wr_off > 2
  /\ wr_off < Len(cbuf)
  /\ fd = SubSeq(cbuf, 1, wr_off)

(***************************************************************************)
(* C33  Learning precedes VLAN filtering: after every frame of at least 14 *)
(* bytes with a unicast source the learning table maps the source to the   *)
(* ingress port, also when the frame is dropped because the ingress port   *)
(* is no member of the frame's VLAN; and a unicast frame whose destination *)
(* the table holds goes to the port of that entry, however the entry was   *)
(* learned.                                                                *)
(***************************************************************************)
C33_LearningPrecedesFiltering ==
  (Handled /\ Len(rx.frame) >= ETH_HEADER_SIZE /\ IsUnicast(Src(rx.frame))) =>
    /\ LearnedPorts(lookupTable, Src(rx.frame)) = {rx.ifc}
    /\ IsUnicast(Dst(rx.frame)) =>
         \A q \in LearnedPorts(lookupTable, Dst(rx.frame)) :
           tx = <<forward_to(q, rx.frame, Len(rx.frame))>>

\* A tagged broadcast frame arrives on an untagged port and is dropped; its
\* source was learned on another port before and is now mapped to this one.
C33_Witness ==
  /\ Handled
  /\ HasQTag(rx.frame)
  /\ ~IsUnicast(Dst(rx.frame))
  /\ ~IngressAccepted
  /\ tx = <<>>
  /\ \E q \in 1..num_ifc :
       q # rx.ifc /\ LearnedPorts(prev, Src(rx.frame)) = {q}
  /\ LearnedPorts(lookupTable, Src(rx.frame)) = {rx.ifc}

(***************************************************************************)
(* C34  Deframing is independent of read chunking: when loop() has ended   *)
(* at the end of the inbound stream, the handler calls made are, in stream *)
(* order and each exactly once with its type and its size - 4 payload      *)
(* bytes, all the complete messages of the stream, a message that consists *)
(* of its 4-byte envelope alone included; what is left in the buffer is no *)
(* complete message.                                                       *)
(***************************************************************************)
\* The buffer b starts with a complete message.
CompleteMessage(b) ==
  /\ Len(b) >= GLAB_HEADER_SIZE
  /\ HdrSize(b) >= GLAB_HEADER_SIZE
  /\ Len(b) >= HdrSize(b)

C34_ChunkingIndependence ==
  (status = "exit0" /\ nread = Len(input)) =>
    /\ Reassembled(dispatched) \o buf = input
    /\ ~CompleteMessage(buf)

(***************************************************************************)
(* C35  Buffer bounds of the tag transformations: while a frame of at      *)
(* least 14 bytes is handled, no index written lies outside the buffer     *)
(* declared for the stripped or the tag-inserted frame and no index read   *)
(* lies outside the frame_size bytes of the ingress frame.                 *)
(***************************************************************************)
C35_TagTransformBounds ==
  (Handled /\ Len(rx.frame) >= ETH_HEADER_SIZE) => ~oob

(***************************************************************************)
(* C36  FIFO replacement by insertion order: the table holds at most 8     *)
(* addresses, each once; a frame whose source the table does not hold adds *)
(* the source as the newest address and, when the table is full, removes   *)
(* the address that was inserted earliest and no other; a frame whose      *)
(* source the table holds, on the same or on another port, leaves the      *)
(* order of insertion as it is.  An address is therefore still stored      *)
(* after 7 insertions of new addresses and removed by the 8th.             *)
(***************************************************************************)
StoredMacs(lt) == {e[1] : e \in Entries(lt)}

\* The step is the handling of a frame that can be learned from.
LearningStep ==
  /\ rx = NoMsg
  /\ rx' # NoMsg
  /\ status' = "running"
  /\ Len(rx'.frame) >= ETH_HEADER_SIZE
  /\ IsUnicast(Src(rx'.frame))

C36_FifoByInsertionOrder ==
  /\ [](/\ Len(inserted) <= NBR_ENTRIES
        /\ {inserted[k] : k \in DOMAIN inserted} = StoredMacs(lookupTable)
        /\ \A j \in DOMAIN inserted : \A k \in DOMAIN inserted :
             inserted[j] = inserted[k] => j = k)
  /\ [][(LearningStep /\ Src(rx'.frame) \notin StoredMacs(lookupTable)) =>
          inserted' = Append(IF Len(inserted) = NBR_ENTRIES
                               THEN Tail(inserted) ELSE inserted,
                             Src(rx'.frame))]_vars
  /\ [][(LearningStep /\ Src(rx'.frame) \in StoredMacs(lookupTable)) =>
          inserted' = inserted]_vars

\* The ninth station has replaced the first, which had last been seen on
\* port 2; the second station is now the oldest.
C36_Witness ==
  /\ Handled
  /\ Src(rx.frame) = Station(NBR_ENTRIES + 1)
  /\ LearnedPorts(prev, Station(1)) = {2}
  /\ LearnedPorts(prev, Src(rx.frame)) = {}
  /\ Len(inserted) = NBR_ENTRIES
  /\ Head(inserted) = Station(2)
  /\ inserted[NBR_ENTRIES] = Station(NBR_ENTRIES + 1)
  /\ LearnedPorts(lookupTable, Station(1)) = {}

(***************************************************************************)
(* C37  At most one copy per port: among the messages emitted for a        *)
(* handled frame no two have the same type, on the flood paths and on the  *)
(* learned-unicast path, also when a port matches both the test for the    *)
(* verbatim copy and the test for the transformed copy.                    *)
(***************************************************************************)
C37_OneCopyPerPort ==
  Handled =>
    \A j \in DOMAIN tx : \A k \in DOMAIN tx :
      tx[j].type = tx[k].type => j = k

\* A tagged frame is flooded from a port whose first tagged VLAN is NO_VLAN
\* to a port that has NO_VLAN both as first tagged VLAN and as untagged
\* VLAN, so that both tests of the loop body match; the port gets one copy.
C37_Witness ==
  /\ Handled
  /\ HasQTag(rx.frame)
  /\ gifc[rx.ifc].untagged_vlan = NO_VLAN
  /\ gifc[rx.ifc].tagged_vlans[1] = NO_VLAN
  /\ \E q \in 1..num_ifc :
       /\ q # rx.ifc
       /\ gifc[q].tagged_vlans[1] = NO_VLAN
       /\ gifc[q].untagged_vlan = NO_VLAN
       /\ \E k \in DOMAIN tx : tx[k].type = q

(***************************************************************************)
(* C38  Out-of-range port index is fatal: a frame message whose type is    *)
(* greater than the number of ports, and a first control message that      *)
(* holds a MAC for an index greater than the number of ports, end the      *)
(* process with abort() before the learning table is changed or anything   *)
(* is emitted for that message; so the process does not exit with 0 while  *)
(* such a frame message is complete in its buffer.                         *)
(***************************************************************************)
C38_PortIndexOutOfRange ==
  /\ (rx # NoMsg /\ rx.ifc > num_ifc) =>
        /\ status = "aborted"
        /\ tx = <<>>
        /\ lookupTable = prev
  /\ (/\ dispatched # <<>>
      /\ dispatched[1].type = 0
      /\ Len(dispatched[1].payload) \div 6 > num_ifc) =>
        /\ status = "aborted"
        /\ Len(dispatched) = 1
        /\ stdout = <<>>
        /\ lookupTable = ZeroTable
  /\ (status = "exit0" /\ nread = Len(input)) =>
        ~(CompleteMessage(buf) /\ HdrType(buf) > num_ifc)

(***************************************************************************)
(* C39  Lookup agrees with an abstract map: in every state the lookup of   *)
(* an address finds nothing if the address has not been inserted or has    *)
(* been replaced since, and otherwise finds one of the ports; after a      *)
(* frame has been learned from, the lookup of its source finds the ingress *)
(* port, and the lookup of any other address finds what it found before    *)
(* or nothing.  The address 00:00:00:00:00:00 is no exception: it is not   *)
(* found while only slots that nothing has written hold it, and found with *)
(* its port once it is learned.                                            *)
(***************************************************************************)
\* The port that the lookup of mac finds in the table lt; 0 for not found.
Lookup(lt, mac) ==
  LET i == search_lookup_table(lt, mac)
  IN  IF i = -1 THEN 0 ELSE lt.table[i].ifc_num

KnownMacs == {ZeroStation(n) : n \in 1..(NBR_ENTRIES + 1)}

C39_LookupAgreesWithMap ==
  /\ \A mac \in KnownMacs :
       /\ Lookup(lookupTable, mac) = 0
            <=> mac \notin {inserted[k] : k \in DOMAIN inserted}
       /\ Lookup(lookupTable, mac) \in 0..num_ifc
  /\ (Handled /\ Len(rx.frame) >= ETH_HEADER_SIZE /\ IsUnicast(Src(rx.frame))) =>
       /\ Lookup(lookupTable, Src(rx.frame)) = rx.ifc
       /\ \A mac \in KnownMacs \ {Src(rx.frame)} :
            Lookup(lookupTable, mac) \in {0, Lookup(prev, mac)}

\* The all-zero address was learned on port 1 and has moved to port 2 while
\* the table still has slots that nothing has written.
C39_Witness ==
  /\ Handled
  /\ Src(rx.frame) = ZeroMac
  /\ rx.ifc = 2
  /\ Lookup(prev, ZeroMac) = 1
  /\ Lookup(lookupTable, ZeroMac) = 2
  /\ \E i \in 0..(NBR_ENTRIES - 1) :
       /\ lookupTable.table[i].mac = ZeroMac
       /\ lookupTable.table[i].ifc_num = IF_NO_INIT

====
